---- MODULE Spec2Model ----
(***************************************************************************)
(* Squash: encoder selection and job orchestration.                        *)
(*                                                                         *)
(* The module holds its specifications over one set of variables:          *)
(*   SpecSel    the capability probe and the encoder selector as pure      *)
(*              functions of the job, the format and the runtime;          *)
(*   Spec       the orchestrator on the UI thread: the store, the queue    *)
(*              drain, reprocessVideo, reprocessAllVideos, the capability  *)
(*              cache and the main-thread side of the FFmpeg worker;       *)
(*   FairSpec   the queue drain alone, with the fairness of the event loop;*)
(*   SpecPanel  the queue drain with the quality, target size and          *)
(*              suggestion handlers of the settings;                       *)
(*   SpecFormat the queue drain with the output format handlers;           *)
(*   SpecDrag   the queue drain with the drag-to-reorder list;             *)
(*   SpecTrim   the trim fields of a card;                                 *)
(*   SpecWorker one compress request inside the FFmpeg worker, with its    *)
(*              virtual file system and the progress it reports;           *)
(*   SpecPure   selectEncoder called again and again in one session;       *)
(*   SpecTwoPass the queue drain with the two-pass checkbox;               *)
(*   SpecReports the progress reports of jobs encoded one after the other; *)
(*   SpecEstimate the estimates made for one job;                          *)
(*   SpecChannel the message channel with compress and preview requests;   *)
(*   SpecPasses one compress request from the settings to the commands of  *)
(*              FFmpeg;                                                    *)
(*   FairLive   the queue drain with Retry and generatePreview, with the   *)
(*              fairness of the event loop.                                *)
(* A step of Spec is one task of the event loop: a handler runs from the   *)
(* event that starts it up to the next await that really suspends.         *)
(***************************************************************************)
EXTENDS Integers, Sequences, FiniteSets, TLC

VARIABLES
    sel,                    \* SpecSel: inputs and result of one selectEncoder call
    items,                  \* videos.items: the ordered job list
    settings,               \* videos.settings
    queue,                  \* compress: queue of job ids
    isProcessing,           \* compress: isProcessing
    webCodecsCapabilities,  \* compress: capability cache, <<>> = null, else <<caps>>
    runtime,                \* what the browser answers to capability queries
    procs,                  \* the async activations and where each is suspended
    worker,                 \* compress: worker (0 = null, 1 = a Worker)
    workerReady,            \* compress: workerReady
    workerLoading,          \* compress: workerLoading
    pendingCallbacks,       \* compress: pendingCallbacks, key -> awaiting activation
    wreqs,                  \* compress requests the worker has not answered
    urls,                   \* object URLs created and not revoked
    hist,                   \* the next job id, whether the page is mounted, what the
                            \* user set last (quality or size, a valid or invalid trim)
    wk                      \* SpecWorker: the worker-side run and the job it reports to

selVars  == <<sel>>
mainVars == <<items, settings, queue, isProcessing, webCodecsCapabilities, runtime,
              procs, worker, workerReady, workerLoading, pendingCallbacks,
              wreqs, urls, hist>>
wkVars   == <<wk>>
vars     == <<sel, items, settings, queue, isProcessing, webCodecsCapabilities, runtime,
              procs, worker, workerReady, workerLoading, pendingCallbacks,
              wreqs, urls, hist, wk>>

(***************************************************************************)
(* Capability prober (webcodecs.ts)                                        *)
(***************************************************************************)
VideoCodecs == {"avc", "vp9", "av1", "hevc"}
AudioCodecs == {"aac", "opus"}

Res2160 == [width |-> 3840, height |-> 2160]
Res1440 == [width |-> 2560, height |-> 1440]
Res1080 == [width |-> 1920, height |-> 1080]
ProbeResolutions == <<Res2160, Res1440, Res1080>>

\* A runtime is what the browser answers: api = the four WebCodecs classes
\* exist; video = codecs canEncodeVideo accepts at 1080p; hw = codecs whose
\* prefer-hardware configuration is honoured; audio = codecs canEncodeAudio
\* accepts; res = resolutions canEncodeVideo('avc') accepts.
isWebCodecsSupported(rt) == rt.api

RECURSIVE FirstSupported(_, _, _)
FirstSupported(rt, i, dflt) ==
    IF i > Len(ProbeResolutions) THEN dflt
    ELSE IF ProbeResolutions[i] \in rt.res THEN ProbeResolutions[i]
    ELSE FirstSupported(rt, i + 1, dflt)

getWebCodecsCapabilities(rt) ==
    IF ~isWebCodecsSupported(rt)
    THEN [supported |-> FALSE, hardwareAcceleration |-> FALSE,
          supportedVideoCodecs |-> {}, supportedAudioCodecs |-> {},
          maxResolution |-> [width |-> 0, height |-> 0]]
    ELSE [supported |-> rt.video # {},
          hardwareAcceleration |-> (rt.video \cap rt.hw) # {},
          supportedVideoCodecs |-> rt.video,
          supportedAudioCodecs |-> rt.audio,
          maxResolution |-> FirstSupported(rt, 1, Res1080)]

getRecommendedCodecs(outputFormat) ==
    IF outputFormat = "webm" THEN [video |-> "vp9", audio |-> "opus"]
    ELSE [video |-> "avc", audio |-> "aac"]

\* videoOk is the runtime's answer to canEncodeVideo at the exact size.
isEncodingSupported(rt, videoCodec, audioCodec, videoOk) ==
    IF ~isWebCodecsSupported(rt) THEN FALSE
    ELSE videoOk /\ audioCodec \in rt.audio

(***************************************************************************)
(* Encoder selector (compress: selectEncoder)                              *)
(***************************************************************************)
\* width/height 0 stands for a dimension the metadata did not give.
targetWidth(video)  == IF video.width = 0 THEN 1920 ELSE video.width
targetHeight(video) == IF video.height = 0 THEN 1080 ELSE video.height

\* The checks selectEncoder makes before it awaits isEncodingSupported;
\* Undecided when none of them decides.
Undecided == [encoder |-> "none", reason |-> ""]

\* outputFormat === 'mp4' ? 'mp4' : 'webm'
webCodecsFormat(outputFormat) == IF outputFormat = "mp4" THEN "mp4" ELSE "webm"

\* selectEncoder with the AV1 rule taken out.
selectEarlyNoPin(video, outputFormat, capabilities) ==
    IF ~capabilities.supported
    THEN [encoder |-> "ffmpeg", reason |-> "WebCodecs not supported in this browser"]
    ELSE IF getRecommendedCodecs(webCodecsFormat(outputFormat)).video
                \notin capabilities.supportedVideoCodecs
    THEN [encoder |-> "ffmpeg",
          reason |-> IF webCodecsFormat(outputFormat) = "webm"
                     THEN "VP9 codec not supported" ELSE "AVC codec not supported"]
    ELSE IF \/ targetWidth(video) > capabilities.maxResolution.width
            \/ targetHeight(video) > capabilities.maxResolution.height
    THEN [encoder |-> "ffmpeg", reason |-> "Resolution exceeds WebCodecs limits"]
    ELSE Undecided

selectEarly(video, outputFormat, capabilities) ==
    IF outputFormat = "av1"
    THEN [encoder |-> "ffmpeg", reason |-> "AV1 encoding optimized for FFmpeg"]
    ELSE IF ~capabilities.supported
    THEN [encoder |-> "ffmpeg", reason |-> "WebCodecs not supported in this browser"]
    ELSE IF getRecommendedCodecs(webCodecsFormat(outputFormat)).video
                \notin capabilities.supportedVideoCodecs
    THEN [encoder |-> "ffmpeg",
          reason |-> IF webCodecsFormat(outputFormat) = "webm"
                     THEN "VP9 codec not supported" ELSE "AVC codec not supported"]
    ELSE IF \/ targetWidth(video) > capabilities.maxResolution.width
            \/ targetHeight(video) > capabilities.maxResolution.height
    THEN [encoder |-> "ffmpeg", reason |-> "Resolution exceeds WebCodecs limits"]
    ELSE Undecided

\* selectEncoder with the answer of the exact query ignored.
selectLateAnyAnswer(capabilities, isSupported) ==
    [encoder |-> "webcodecs",
     reason |-> IF capabilities.hardwareAcceleration
                THEN "Hardware encoding available (GPU accelerated)"
                ELSE "Hardware encoding available"]

selectLate(capabilities, isSupported) ==
    IF ~isSupported
    THEN [encoder |-> "ffmpeg", reason |-> "Encoding configuration not supported"]
    ELSE [encoder |-> "webcodecs",
          reason |-> IF capabilities.hardwareAcceleration
                     THEN "Hardware encoding available (GPU accelerated)"
                     ELSE "Hardware encoding available"]

selectEncoder(video, outputFormat, capabilities, isSupported) ==
    IF selectEarly(video, outputFormat, capabilities) # Undecided
    THEN selectEarly(video, outputFormat, capabilities)
    ELSE selectLate(capabilities, isSupported)

(***************************************************************************)
(* Bounds                                                                  *)
(***************************************************************************)
NumJobs    == 2    \* files the user adds in a session
MaxQueue   == 3    \* ids waiting in the queue

JobIds  == 1..NumJobs
Formats == {"mp4", "webm", "av1"}
\* Formats the user picks from in Spec.
MainFormats == {"mp4", "av1"}

\* Metadata of the file behind each job id (0 = not known): width, height,
\* duration in seconds, bitrate in bits per second.
VideoOf(id) ==
    IF id = 1 THEN [width |-> 3840, height |-> 2160, duration |-> 3, bitrate |-> 25000000]
    ELSE IF id = 2 THEN [width |-> 1920, height |-> 1080, duration |-> 2, bitrate |-> 8000000]
    ELSE [width |-> 1280, height |-> 719, duration |-> 0, bitrate |-> 0]

\* Runtimes the orchestrator is run against.
NoWebCodecs == [api |-> FALSE, video |-> {}, hw |-> {}, audio |-> {}, res |-> {}]
Desktop     == [api |-> TRUE, video |-> {"avc", "vp9", "av1"}, hw |-> {"avc"},
                audio |-> {"aac", "opus"}, res |-> {Res1440, Res1080}]
MainRuntimes == {Desktop}
\* The sizes for which Desktop answers true to canEncodeVideo in
\* isEncodingSupported.
DesktopExactSizes == {Res1440, Res1080}

(***************************************************************************)
(* Store (videos.svelte.ts)                                                *)
(***************************************************************************)
NoError == ""
\* trimStart / trimEnd === undefined
NoTime == -1

\* compressedUrl / previewUrl === undefined
NoUrl == <<>>

\* URL.createObjectURL: a URL that is not live. A URL is <<owner, kind, n>>:
\* the job it was created for, what it points to, and a number that tells
\* the live URLs of one job and kind apart.
createObjectURL(live, id, kind) ==
    <<id, kind, CHOOSE n \in 1..(Cardinality(live) + 1) :
                    /\ <<id, kind, n>> \notin live
                    /\ \A k \in 1..(n - 1) : <<id, kind, k>> \in live>>

\* compressedSize 0 and compressedBlob "none" stand for undefined.
NewItem(id, outputFormat, originalUrl) ==
    [id |-> id, status |-> "pending", error |-> NoError, outputFormat |-> outputFormat,
     originalUrl |-> originalUrl,
     compressedSize |-> 0, compressedUrl |-> NoUrl, compressedBlob |-> "none",
     previewUrl |-> NoUrl,
     trimStart |-> NoTime, trimEnd |-> NoTime]

HasItem(its, id) == \E i \in DOMAIN its : its[i].id = id
getItemById(its, id) == its[CHOOSE i \in DOMAIN its : its[i].id = id]

\* updateItem that adds the job when the list does not hold the id.
updateItemOrAdd(its, id, updates) ==
    IF \E i \in DOMAIN its : its[i].id = id
    THEN [i \in DOMAIN its |-> IF its[i].id = id THEN updates @@ its[i] ELSE its[i]]
    ELSE Append(its, updates @@ NewItem(id, "mp4", NoUrl))

updateItem(its, id, updates) ==
    [i \in DOMAIN its |-> IF its[i].id = id THEN updates @@ its[i] ELSE its[i]]

\* The URLs the store revokes when it drops the item.
OwnedUrls(item) == {item.originalUrl, item.compressedUrl, item.previewUrl} \ {NoUrl}

removeItem(m, id) ==
    LET Keep(it) == it.id # id
    IN [m EXCEPT !.urls = IF HasItem(m.items, id)
                          THEN @ \ OwnedUrls(getItemById(m.items, id)) ELSE @,
                 !.items = SelectSeq(@, Keep)]

clearAll(m) ==
    [m EXCEPT !.urls = @ \ UNION {OwnedUrls(m.items[i]) : i \in DOMAIN m.items},
              !.items = <<>>]

IdsWithStatus(its, st) ==
    LET Keep(it) == it.status = st
        f == SelectSeq(its, Keep)
    IN [i \in DOMAIN f |-> f[i].id]

StatusOf(its, id) == IF HasItem(its, id) THEN getItemById(its, id).status ELSE "removed"

(***************************************************************************)
(* Settings (videos.svelte.ts) and the encode arguments made from them     *)
(***************************************************************************)
\* targetSizeMB 0 stands for undefined: the code tests it for truthiness.
\* audioBitrate, audioCodec, stripMetadata and preset keep their defaults
\* ('128k', 'aac', false, 'medium'); the code reads them where it reads
\* resolution.
getDefaultSettings ==
    [quality |-> "web", outputFormat |-> "mp4", resolution |-> "original",
     twoPass |-> FALSE, targetSizeMB |-> 0]

\* targetBitrate in kbit/s: '500k' is 500.
QUALITY_PRESETS ==
    [tiny     |-> [crf |-> 35, targetBitrate |-> 500],
     web      |-> [crf |-> 28, targetBitrate |-> 1000],
     social   |-> [crf |-> 23, targetBitrate |-> 2000],
     high     |-> [crf |-> 18, targetBitrate |-> 4000],
     lossless |-> [crf |-> 0,  targetBitrate |-> 0]]

Max(a, b) == IF a > b THEN a ELSE b

Min(a, b) == IF a < b THEN a ELSE b

\* Math.round(a / b) for a >= 0, b > 0
RoundDiv(a, b) == (2 * a + b) \div (2 * b)

\* The item as the encode functions read it: its metadata and its trim.
VideoItem(item) ==
    [trimStart |-> item.trimStart, trimEnd |-> item.trimEnd] @@ VideoOf(item.id)

getEffectiveDuration(video) ==
    IF video.trimStart # NoTime \/ video.trimEnd # NoTime
    THEN LET start == IF video.trimStart = NoTime THEN 0 ELSE video.trimStart
             end   == IF video.trimEnd = NoTime THEN video.duration ELSE video.trimEnd
         IN Max(0, end - start)
    ELSE video.duration

\* Bits per second; the audio track takes 128000 bit/s.
calculateBitrateForSize(video, targetSizeMB) ==
    LET duration == getEffectiveDuration(video)
        targetBytes == targetSizeMB * 1024 * 1024
        audioBytes == (128000 * duration) \div 8
        availableBytesForVideo == targetBytes - audioBytes
    IN IF duration <= 0 THEN 2000000
       ELSE IF availableBytesForVideo <= 0 THEN 100000
       ELSE Max(100000, IF RoundDiv(availableBytesForVideo * 8, duration) < 20000000
                        THEN RoundDiv(availableBytesForVideo * 8, duration)
                        ELSE 20000000)

\* compressWithFFmpeg, what it reads after initWorker has returned: the
\* preset of the quality and the target bitrate (kbit/s).
ffmpegEarlyArgs(item, st) ==
    [crf |-> QUALITY_PRESETS[st.quality].crf,
     targetBitrate |->
        IF st.targetSizeMB # 0
        THEN RoundDiv(calculateBitrateForSize(VideoItem(item), st.targetSizeMB), 1000)
        ELSE QUALITY_PRESETS[st.quality].targetBitrate]

\* compressWithFFmpeg, the settings of the 'compress' message it posts after
\* the file has been read.
ffmpegPayload(early, st) ==
    [crf |-> IF st.targetSizeMB # 0 THEN 23 ELSE early.crf,
     targetBitrate |-> early.targetBitrate,
     resolution |-> st.resolution,
     twoPass |-> (st.twoPass \/ st.targetSizeMB # 0)]

\* bitrateMap[quality] || 2_000_000
webCodecsBitrate(quality) ==
    IF quality = "tiny" THEN 500000
    ELSE IF quality = "web" THEN 1500000
    ELSE IF quality = "social" THEN 3000000
    ELSE IF quality = "high" THEN 6000000
    ELSE IF quality = "lossless" THEN 20000000
    ELSE 2000000

\* resolutionMap[videos.settings.resolution] || resolutionMap['original']
resolutionMap(video, resolution) ==
    IF resolution = "2160p" THEN [width |-> 3840, height |-> 2160]
    ELSE IF resolution = "1440p" THEN [width |-> 2560, height |-> 1440]
    ELSE IF resolution = "1080p" THEN [width |-> 1920, height |-> 1080]
    ELSE IF resolution = "720p" THEN [width |-> 1280, height |-> 720]
    ELSE IF resolution = "480p" THEN [width |-> 854, height |-> 480]
    ELSE IF resolution = "360p" THEN [width |-> 640, height |-> 360]
    ELSE [width |-> IF video.width = 0 THEN 1920 ELSE video.width,
          height |-> IF video.height = 0 THEN 1080 ELSE video.height]

\* compressWithWebCodecs, the arguments it passes to encodeWithWebCodecs.
webCodecsArgs(item, st) ==
    [bitrate |-> IF st.targetSizeMB # 0
                 THEN calculateBitrateForSize(VideoItem(item), st.targetSizeMB)
                 ELSE webCodecsBitrate(st.quality),
     width |-> resolutionMap(VideoOf(item.id), st.resolution).width,
     height |-> resolutionMap(VideoOf(item.id), st.resolution).height,
     quality |-> st.quality]

(***************************************************************************)
(* Activations                                                             *)
(***************************************************************************)
DrainSlots == << <<"processQueue", 1>>, <<"processQueue", 2>> >>
Drains     == {DrainSlots[i] : i \in DOMAIN DrainSlots}
Rv(id)     == <<"reprocessVideo", id>>     \* the activation for job id
Rvs        == {Rv(id) : id \in JobIds}
Ra         == <<"reprocessAllVideos", 0>>
Pl         == <<"preloadFFmpeg", 0>>
Procs      == Drains \cup Rvs \cup {Ra, Pl}

\* item holds the fields the run reads of the item it was called with and
\* snap the settings at that moment; early and args are what the run has read
\* from the settings so far (<<>> = nothing yet).
IdleProc == [pc |-> "idle", job |-> 0, fmt |-> "none", rest |-> <<>>,
             item |-> <<>>, snap |-> <<>>, early |-> <<>>, args |-> <<>>]

\* The main-thread state as one value, so that the code's calls compose.
Cur == [items |-> items, settings |-> settings,
        queue |-> queue, isProcessing |-> isProcessing,
        caps |-> webCodecsCapabilities, procs |-> procs, worker |-> worker,
        workerReady |-> workerReady, workerLoading |-> workerLoading,
        pendingCallbacks |-> pendingCallbacks, wreqs |-> wreqs, urls |-> urls,
        hist |-> hist]

\* The state after the step is m; m is evaluated once. The orchestrator only
\* reads the settings.
Commit(m) ==
    \E v \in {m} :
        /\ items' = v.items
        /\ queue' = v.queue
        /\ isProcessing' = v.isProcessing
        /\ webCodecsCapabilities' = v.caps
        /\ procs' = v.procs
        /\ worker' = v.worker
        /\ workerReady' = v.workerReady
        /\ workerLoading' = v.workerLoading
        /\ pendingCallbacks' = v.pendingCallbacks
        /\ wreqs' = v.wreqs
        /\ urls' = v.urls
        /\ hist' = v.hist

RECURSIVE FirstIdle(_, _, _)
FirstIdle(m, slots, i) ==
    IF i > Len(slots) THEN "none"
    ELSE IF m.procs[slots[i]].pc = "idle" THEN slots[i]
    ELSE FirstIdle(m, slots, i + 1)

(***************************************************************************)
(* initWebCodecs and initWorker (compress)                                 *)
(***************************************************************************)
\* initWebCodecs on a cache miss: the caller suspends in the probe.
initWebCodecsMiss(m, p, pc) ==
    [m EXCEPT !.procs[p].pc = pc]

\* new Worker(...) and postMessage({ type: 'load' }).
startLoad(m, p) ==
    [m EXCEPT !.workerLoading = TRUE,
              !.worker = 1,
              !.procs[p].pc = "loading"]

initWorker(m, p) ==
    IF m.worker # 0 /\ m.workerReady THEN [m EXCEPT !.procs[p].pc = "ready"]
    ELSE IF m.workerLoading
    THEN [m EXCEPT !.procs[p].pc = "poll"]
    ELSE startLoad(m, p)

\* The initWorker call of activation p returns the worker: preloadFFmpeg
\* returns true, compressWithFFmpeg goes on to read the file.
initWorkerResolved(m, p) ==
    IF p = Pl THEN [m EXCEPT !.procs[p] = IdleProc]
    ELSE [m EXCEPT !.procs[p].pc = "read",
                   !.procs[p].early = <<ffmpegEarlyArgs(m.procs[p].item[1], m.settings)>>]

callInitWorker(m, p) ==
    LET m1 == initWorker(m, p)
    IN IF m1.procs[p].pc = "ready" THEN initWorkerResolved(m1, p) ELSE m1

(***************************************************************************)
(* compressVideo (compress)                                                *)
(***************************************************************************)
\* The capabilities selectEncoder reads; the cache is empty only when the
\* format is AV1, which returns before reading them.
CachedCaps(m) == IF m.caps = <<>> THEN getWebCodecsCapabilities(NoWebCodecs) ELSE m.caps[1]

compressWithFFmpeg(m, p) == callInitWorker(m, p)

compressWithWebCodecs(m, p) ==
    [m EXCEPT !.procs[p].pc = "hw",
              !.procs[p].args = <<webCodecsArgs(m.procs[p].item[1], m.settings)>>]

Dispatch(m, p, choice) ==
    IF choice.encoder = "webcodecs" THEN compressWithWebCodecs(m, p)
    ELSE compressWithFFmpeg(m, p)

\* selectEncoder as compressVideo runs it, up to the await that suspends.
selectEncoderCall(m, p) ==
    LET pr == m.procs[p]
        early == selectEarly(VideoOf(pr.job), pr.fmt, CachedCaps(m))
    IN IF pr.fmt # "av1" /\ m.caps = <<>> THEN initWebCodecsMiss(m, p, "selprobe")
       ELSE IF early # Undecided THEN Dispatch(m, p, early)
       ELSE [m EXCEPT !.procs[p].pc = "query"]

\* compressVideo marking the job done before it has run.
compressVideoStartAsDone(its, id) == updateItem(its, id, [status |-> "completed"])

compressVideoStart(its, id) == updateItem(its, id, [status |-> "processing"])

\* URL.createObjectURL(compressedBlob), then the result is stored on the job.
compressVideoDone(m, id) ==
    LET compressedUrl == createObjectURL(m.urls, id, "compressed")
    IN [m EXCEPT !.urls = @ \cup {compressedUrl},
                 !.items = updateItem(@, id, [status |-> "completed",
                                              compressedSize |-> 1,
                                              compressedUrl |-> compressedUrl,
                                              compressedBlob |-> "blob"])]

\* compressVideo with a catch block that swallows the failure.
compressVideoCatchSilent(its, id, message) == its

compressVideoCatch(its, id, message) ==
    updateItem(its, id, [status |-> "error", error |-> message])

\* What a failing step throws or rejects with: an Error from the encode, the
\* Error made from a 'loaded' message without success, or the ErrorEvent that
\* worker.onerror receives.
EncodeFailure    == [isError |-> TRUE, message |-> "Encoding failed"]
LoadFailure      == [isError |-> TRUE, message |-> "Failed to load FFmpeg"]
WorkerErrorEvent == [isError |-> FALSE, message |-> "Worker script error"]

\* error instanceof Error ? error.message : 'Compression failed'
ErrorMessage(failure) ==
    IF failure.isError THEN failure.message ELSE "Compression failed"

compressVideo(m, p, item) ==
    LET m1 == [m EXCEPT !.items = compressVideoStart(@, item.id),
                        !.procs[p].job = item.id,
                        !.procs[p].fmt = item.outputFormat,
                        !.procs[p].item = <<[id |-> item.id,
                                             outputFormat |-> item.outputFormat,
                                             trimStart |-> item.trimStart,
                                             trimEnd |-> item.trimEnd]>>,
                        !.procs[p].snap = <<m.settings>>]
    IN selectEncoderCall(m1, p)

(***************************************************************************)
(* processVideos / processQueue (compress)                                 *)
(***************************************************************************)
RECURSIVE processQueueLoop(_, _)
processQueueLoop(m, p) ==
    IF m.queue = <<>>
    THEN [m EXCEPT !.isProcessing = FALSE, !.procs[p] = IdleProc]
    ELSE LET id == Head(m.queue)
             m1 == [m EXCEPT !.queue = Tail(@)]
         IN IF HasItem(m1.items, id) /\ getItemById(m1.items, id).status = "pending"
            THEN compressVideo(m1, p, getItemById(m1.items, id))
            ELSE processQueueLoop(m1, p)

processQueue(m, p) ==
    IF m.queue = <<>> THEN [m EXCEPT !.isProcessing = FALSE]
    ELSE LET m1 == [m EXCEPT !.isProcessing = TRUE]
         IN IF m1.caps = <<>> THEN initWebCodecsMiss(m1, p, "probe")
            ELSE processQueueLoop(m1, p)

\* processVideos that starts a drain without looking at isProcessing.
processVideosUnguarded(m, ids) ==
    LET m1 == [m EXCEPT !.queue = @ \o ids]
        d  == FirstIdle(m1, DrainSlots, 1)
    IN IF d # "none" THEN processQueue(m1, d) ELSE m1

processVideos(m, ids) ==
    LET m1 == [m EXCEPT !.queue = @ \o ids]
        d  == FirstIdle(m1, DrainSlots, 1)
    IN IF ~m1.isProcessing /\ d # "none" THEN processQueue(m1, d) ELSE m1

(***************************************************************************)
(* reprocessVideo / reprocessAllVideos (compress)                          *)
(***************************************************************************)
\* URL.revokeObjectURL on the old result and the old preview, when set.
revokeResults(live, item) == live \ ({item.compressedUrl, item.previewUrl} \ {NoUrl})

\* The reset that keeps the earlier result on the job.
reprocessResetStatusOnly(its, id) == updateItem(its, id, [status |-> "pending"])

reprocessReset(its, id) ==
    updateItem(its, id, [status |-> "pending", compressedSize |-> 0,
                         compressedUrl |-> NoUrl, compressedBlob |-> "none",
                         previewUrl |-> NoUrl])

reprocessVideo(m, p, id) ==
    IF ~HasItem(m.items, id) THEN m
    ELSE LET m1 == [m EXCEPT !.urls = revokeResults(@, getItemById(m.items, id)),
                             !.items = reprocessReset(@, id)]
         IN compressVideo(m1, p, getItemById(m1.items, id))

\* The first loop of reprocessAllVideos.
RECURSIVE ResetAll(_, _)
ResetAll(m, ids) ==
    IF ids = <<>> THEN m
    ELSE ResetAll([m EXCEPT !.urls = revokeResults(@, getItemById(m.items, Head(ids))),
                            !.items = updateItem(reprocessReset(@, Head(ids)), Head(ids),
                                         [outputFormat |-> m.settings.outputFormat])],
                  Tail(ids))

RECURSIVE reprocessAllLoop(_, _)
reprocessAllLoop(m, p) ==
    LET rest == m.procs[p].rest
    IN IF rest = <<>> THEN [m EXCEPT !.procs[p] = IdleProc]
       ELSE LET id == Head(rest)
                m1 == [m EXCEPT !.procs[p].rest = Tail(rest)]
            IN IF HasItem(m1.items, id) /\ getItemById(m1.items, id).status = "pending"
               THEN compressVideo(m1, p, getItemById(m1.items, id))
               ELSE reprocessAllLoop(m1, p)

reprocessAllVideos(m, p) ==
    LET completedItems == IdsWithStatus(m.items, "completed")
    IN IF completedItems = <<>> THEN m
       ELSE reprocessAllLoop(
                [ResetAll(m, completedItems) EXCEPT !.procs[p].rest = completedItems], p)

\* compressVideo returns and the caller's loop is given up.
endRunHalts(m, p, ok, failure) ==
    LET id == m.procs[p].job
        m0 == IF ok THEN compressVideoDone(m, id)
              ELSE [m EXCEPT !.items = compressVideoCatch(@, id, ErrorMessage(failure))]
    IN [m0 EXCEPT !.procs[p] = IdleProc]

\* compressVideo returns: the result is stored and the caller goes on.
endRun(m, p, ok, failure) ==
    LET id == m.procs[p].job
        m0 == IF ok THEN compressVideoDone(m, id)
              ELSE [m EXCEPT !.items = compressVideoCatch(@, id, ErrorMessage(failure))]
        m1 == [m0 EXCEPT !.procs[p] = [IdleProc EXCEPT !.rest = m.procs[p].rest]]
    IN IF p \in Drains THEN processQueueLoop(m1, p)
       ELSE IF p = Ra THEN reprocessAllLoop(m1, p)
       ELSE [m1 EXCEPT !.procs[p] = IdleProc]

\* The initWorker call of activation p rejects.
initWorkerRejected(m, p, failure) ==
    IF p = Pl THEN [m EXCEPT !.procs[p] = IdleProc]
    ELSE endRun(m, p, FALSE, failure)

(***************************************************************************)
(* Spec: the orchestrator                                                  *)
(***************************************************************************)
\* mode: which of quality and target size the user set last ("none" = neither,
\* or the target size was cleared).
InitHist == [nextId |-> 1, mounted |-> FALSE, mode |-> "none", trim |-> "none"]

InitSel == [video |-> [width |-> 0, height |-> 0], outputFormat |-> "mp4",
            rt |-> NoWebCodecs, videoOk |-> FALSE, result |-> Undecided]

InitWk == [pc |-> "off"]

Init ==
    /\ sel = InitSel
    /\ wk = InitWk
    /\ items = <<>>
    /\ settings = getDefaultSettings
    /\ queue = <<>>
    /\ isProcessing = FALSE
    /\ webCodecsCapabilities = <<>>
    /\ runtime \in MainRuntimes
    /\ procs = [p \in Procs |-> IdleProc]
    /\ worker = 0
    /\ workerReady = FALSE
    /\ workerLoading = FALSE
    /\ pendingCallbacks = <<>>
    /\ wreqs = {}
    /\ urls = {}
    /\ hist = InitHist

Frame == UNCHANGED <<sel, wk, settings, runtime>>

AnyWithStatus(st) == \E i \in DOMAIN items : items[i].status = st

\* videos.addFiles: one more file, pending, in the current global format.
AddFiles ==
    /\ hist.mounted
    /\ hist.nextId <= NumJobs
    /\ LET originalUrl == createObjectURL(urls, hist.nextId, "original")
       IN /\ items' = Append(items, NewItem(hist.nextId, settings.outputFormat,
                                            originalUrl))
          /\ urls' = urls \cup {originalUrl}
    /\ hist' = [hist EXCEPT !.nextId = @ + 1]
    /\ UNCHANGED <<sel, wk, settings, runtime, queue, isProcessing, webCodecsCapabilities,
                   procs, worker, workerReady, workerLoading, pendingCallbacks, wreqs>>

\* AdvancedSettings: the Compress button, shown when a job is pending and
\* disabled while a job is processing or a handler of the panel is running.
HandleCompressAll ==
    /\ AnyWithStatus("pending")
    /\ ~AnyWithStatus("processing")
    /\ procs[Ra].pc = "idle"
    /\ Len(queue) + Len(IdsWithStatus(items, "pending")) <= MaxQueue
    /\ Commit(processVideos(Cur, IdsWithStatus(items, "pending")))
    /\ Frame

\* AdvancedSettings: the Re-compress button, shown when no job is pending
\* and one is completed, disabled like the Compress button.
HandleRecompressAll ==
    /\ ~AnyWithStatus("pending")
    /\ AnyWithStatus("completed")
    /\ ~AnyWithStatus("processing")
    /\ procs[Ra].pc = "idle"
    /\ Commit(reprocessAllVideos(Cur, Ra))
    /\ Frame

\* VideoCard: Retry, offered on a failed job.
HandleRetry(id) ==
    /\ StatusOf(items, id) = "error"
    /\ procs[Rv(id)].pc = "idle"
    /\ Commit(reprocessVideo(Cur, Rv(id), id))
    /\ Frame

\* VideoCard: the format menu, offered on a completed job.
HandleFormatChange(id, format) ==
    /\ StatusOf(items, id) = "completed"
    /\ format # getItemById(items, id).outputFormat
    /\ procs[Rv(id)].pc = "idle"
    /\ Commit(reprocessVideo(
                [Cur EXCEPT !.items = updateItem(@, id, [outputFormat |-> format])],
                Rv(id), id))
    /\ Frame

\* VideoCard: the remove button.
HandleRemove(id) ==
    /\ HasItem(items, id)
    /\ Commit(removeItem(Cur, id))
    /\ Frame

\* +page: Escape, then Clear All in the confirmation.
HandleClearAll ==
    /\ items # <<>>
    /\ Commit(clearAll(Cur))
    /\ Frame

\* preloadFFmpeg, called once when the page is mounted, before the user
\* can drop a file.
preloadFFmpeg ==
    /\ ~hist.mounted
    /\ LET m == [Cur EXCEPT !.hist.mounted = TRUE]
       IN Commit(IF m.caps = <<>> THEN initWebCodecsMiss(m, Pl, "probe")
                 ELSE callInitWorker(m, Pl))
    /\ Frame

\* getWebCodecsCapabilities answers activation p; initWebCodecs stores the
\* value and its caller goes on.
ProbeDone(p) ==
    /\ procs[p].pc \in {"probe", "selprobe"}
    /\ LET m == [Cur EXCEPT !.caps = <<getWebCodecsCapabilities(runtime)>>]
       IN Commit(IF procs[p].pc = "selprobe" THEN selectEncoderCall(m, p)
                 ELSE IF p \in Drains THEN processQueueLoop(m, p)
                 ELSE callInitWorker(m, p))
    /\ Frame

\* isEncodingSupported answers; selectEncoder returns its choice.
QueryDone(p) ==
    /\ procs[p].pc = "query"
    /\ LET codecs == getRecommendedCodecs(webCodecsFormat(procs[p].fmt))
           size == [width |-> targetWidth(VideoOf(procs[p].job)),
                    height |-> targetHeight(VideoOf(procs[p].job))]
           ok == isEncodingSupported(runtime, codecs.video, codecs.audio,
                                     size \in DesktopExactSizes)
       IN Commit(Dispatch(Cur, p, selectLate(CachedCaps(Cur), ok)))
    /\ Frame

\* encodeWithWebCodecs returns a blob or throws.
HwDone(p, ok) ==
    /\ procs[p].pc = "hw"
    /\ Commit(endRun(Cur, p, ok, EncodeFailure))
    /\ Frame

\* initWorker: a waiting caller wakes up and finds the load over.
PollWake(p) ==
    /\ procs[p].pc = "poll"
    /\ ~workerLoading
    /\ Commit(IF worker # 0 /\ workerReady THEN initWorkerResolved(Cur, p)
              ELSE startLoad(Cur, p))
    /\ Frame

\* worker.onmessage 'loaded' (success or not) or worker.onerror, answering
\* the 'load' request of activation p.
LoadReply(p, outcome) ==
    /\ procs[p].pc = "loading"
    /\ LET m == [Cur EXCEPT !.workerLoading = FALSE]
       IN Commit(
            IF outcome = "loaded"
            THEN initWorkerResolved([m EXCEPT !.workerReady = TRUE], p)
            ELSE initWorkerRejected(m, p,
                    IF outcome = "failed" THEN LoadFailure ELSE WorkerErrorEvent))
    /\ Frame

PutCallback(cbs, key, p) ==
    LET Keep(e) == e.key # key IN Append(SelectSeq(cbs, Keep), [key |-> key, p |-> p])
DeleteCallback(cbs, key) == LET Keep(e) == e.key # key IN SelectSeq(cbs, Keep)
HasCallback(cbs, key) == \E i \in DOMAIN cbs : cbs[i].key = key
GetCallback(cbs, key) == cbs[CHOOSE i \in DOMAIN cbs : cbs[i].key = key].p

CompressKey(id) == <<"", id>>
PreviewKey(id)  == <<"preview_", id>>

\* The callback a request registers: compressWithFFmpeg sets id,
\* generatePreview sets `preview_${id}`.
RequestKey(req) == IF req[1] = "preview" THEN PreviewKey(req[2]) ELSE CompressKey(req[2])

\* worker.onmessage without its 'complete' case.
onmessageKeysNoComplete(type, id) ==
    IF type = "preview-complete" THEN {PreviewKey(id)}
    ELSE IF type = "error" THEN {CompressKey(id), PreviewKey(id)}
    ELSE {}

\* worker.onmessage, cases 'complete', 'preview-complete' and 'error': the keys
\* of pendingCallbacks it looks up for a message about job id.
onmessageKeys(type, id) ==
    IF type = "complete" THEN {CompressKey(id)}
    ELSE IF type = "preview-complete" THEN {PreviewKey(id)}
    ELSE IF type = "error" THEN {CompressKey(id), PreviewKey(id)}
    ELSE {}

\* The callbacks a message settles, and pendingCallbacks after it.
onmessageSettled(cbs, type, id) ==
    {k \in onmessageKeys(type, id) : HasCallback(cbs, k)}

RECURSIVE DeleteCallbacks(_, _)
DeleteCallbacks(cbs, keys) ==
    IF keys = {} THEN cbs
    ELSE LET k == CHOOSE x \in keys : TRUE
         IN DeleteCallbacks(DeleteCallback(cbs, k), keys \ {k})

\* item.file.arrayBuffer() returns; the compress request is posted.
ReadDone(p, ok) ==
    /\ procs[p].pc = "read"
    /\ Commit(IF ok
              THEN [Cur EXCEPT !.pendingCallbacks = PutCallback(@, <<"", procs[p].job>>, p),
                               !.wreqs = @ \cup {procs[p].job},
                               !.procs[p].pc = "sent",
                               !.procs[p].args =
                                    <<ffmpegPayload(procs[p].early[1], settings)>>]
              ELSE endRun(Cur, p, FALSE, EncodeFailure))
    /\ Frame

\* worker.onmessage 'complete' / 'error' for compress request id; the
\* rejection of a preview makes generatePreview return null.
WorkerReply(id, ok) ==
    /\ id \in wreqs
    /\ LET key == CompressKey(id)
           settled == onmessageSettled(pendingCallbacks,
                                       IF ok THEN "complete" ELSE "error", id)
           m == [Cur EXCEPT !.wreqs = @ \ {id},
                            !.pendingCallbacks = DeleteCallbacks(@, settled)]
       IN Commit(IF key \in settled
                 THEN endRun(m, GetCallback(pendingCallbacks, key), ok,
                             EncodeFailure)
                 ELSE m)
    /\ Frame

UserNext ==
    \/ AddFiles
    \/ HandleCompressAll
    \/ HandleRecompressAll
    \/ \E id \in JobIds : HandleRetry(id)
    \/ \E id \in JobIds, f \in MainFormats : HandleFormatChange(id, f)
    \/ \E id \in JobIds : HandleRemove(id)
    \/ HandleClearAll
    \/ preloadFFmpeg

SystemNext ==
    \/ \E p \in Procs : ProbeDone(p)
    \/ \E p \in Procs : QueryDone(p)
    \/ \E p \in Procs, b \in BOOLEAN : HwDone(p, b)
    \/ \E p \in Procs : PollWake(p)
    \/ \E p \in Procs, o \in {"loaded", "failed", "onerror"} : LoadReply(p, o)
    \/ \E p \in Procs, b \in BOOLEAN : ReadDone(p, b)
    \/ \E id \in JobIds, b \in BOOLEAN : WorkerReply(id, b)

Next == UserNext \/ SystemNext

Spec == Init /\ [][Next]_vars

(***************************************************************************)
(* SpecSel: selectEncoder over every runtime the prober can meet           *)
(***************************************************************************)
SelWidths  == {0, 1920, 3840}
SelHeights == {0, 1080, 2160}
SelRuntimes ==
    [api : BOOLEAN, video : SUBSET VideoCodecs, hw : {{}, VideoCodecs},
     audio : SUBSET AudioCodecs, res : SUBSET {Res2160, Res1440, Res1080}]

\* The resolution setting when the job is encoded.
SelResolutions == {"original", "2160p"}

InitSelSpec ==
    /\ sel \in [video : [width : SelWidths, height : SelHeights],
                outputFormat : Formats, rt : SelRuntimes, videoOk : BOOLEAN,
                result : {Undecided}]
    /\ wk = InitWk
    /\ items = <<>>
    /\ settings \in {[getDefaultSettings EXCEPT !.resolution = r] : r \in SelResolutions}
    /\ queue = <<>>
    /\ isProcessing = FALSE
    /\ webCodecsCapabilities = <<>>
    /\ runtime = Desktop
    /\ procs = [p \in Procs |-> IdleProc]
    /\ worker = 0
    /\ workerReady = FALSE
    /\ workerLoading = FALSE
    /\ pendingCallbacks = <<>>
    /\ wreqs = {}
    /\ urls = {}
    /\ hist = InitHist

SelCaps == getWebCodecsCapabilities(sel.rt)
SelCodecs == getRecommendedCodecs(webCodecsFormat(sel.outputFormat))
SelIsSupported ==
    isEncodingSupported(sel.rt, SelCodecs.video, SelCodecs.audio, sel.videoOk)

\* One call of selectEncoder(video, outputFormat), from entry to return.
SelectEncoder ==
    /\ sel.result = Undecided
    /\ sel' = [sel EXCEPT !.result =
                    selectEncoder(sel.video, sel.outputFormat, SelCaps, SelIsSupported)]
    /\ UNCHANGED <<mainVars, wk>>

NextSel == SelectEncoder

SpecSel == InitSelSpec /\ [][NextSel]_vars

SelReturned == sel.result # Undecided

\* C5: whenever the requested output format is AV1, selectEncoder returns
\* 'ffmpeg', whatever the capabilities are, also when they list AV1 as a
\* supported codec with hardware acceleration.
SelectorPinsAV1 ==
    (SelReturned /\ sel.outputFormat = "av1") => sel.result.encoder = "ffmpeg"

SelectorPinsAV1Witness ==
    /\ SelReturned
    /\ sel.outputFormat = "av1"
    /\ SelCaps.supported
    /\ "av1" \in SelCaps.supportedVideoCodecs
    /\ SelCaps.hardwareAcceleration
    /\ sel.videoOk
    /\ sel.result.encoder = "ffmpeg"

\* C6: for a format other than AV1, selectEncoder returns 'webcodecs' exactly
\* when capabilities.supported holds, the container's video codec (mp4 -> avc,
\* webm -> vp9) is in supportedVideoCodecs, the job's width and height do not
\* exceed maxResolution and the exact-size query answers true; otherwise it
\* returns 'ffmpeg'. It always returns one of the two.
SelHardwareConditions ==
    /\ SelCaps.supported
    /\ (IF sel.outputFormat = "mp4" THEN "avc" ELSE "vp9") \in SelCaps.supportedVideoCodecs
    /\ sel.video.width <= SelCaps.maxResolution.width
    /\ sel.video.height <= SelCaps.maxResolution.height
    /\ SelIsSupported

SelectorChoosesHardwareExactly ==
    SelReturned =>
        /\ sel.result.encoder \in {"ffmpeg", "webcodecs"}
        /\ sel.outputFormat # "av1" =>
              (sel.result.encoder = "webcodecs" <=> SelHardwareConditions)

SelectorChoosesHardwareExactlyWitness ==
    /\ SelReturned
    /\ sel.outputFormat = "webm"
    /\ sel.video = [width |-> 0, height |-> 1080]
    /\ SelHardwareConditions
    /\ sel.result.encoder = "webcodecs"

\* C20: a job for which selectEncoder has returned 'webcodecs' is encoded,
\* by compressWithWebCodecs, at a width and a height (those of the resolution
\* setting, the source's when the setting is 'original') that do not exceed
\* capabilities.maxResolution.
HardwareWithinMaxResolution ==
    (SelReturned /\ sel.result.encoder = "webcodecs") =>
        /\ resolutionMap(sel.video, settings.resolution).width
               <= SelCaps.maxResolution.width
        /\ resolutionMap(sel.video, settings.resolution).height
               <= SelCaps.maxResolution.height

(***************************************************************************)
(* SpecPure: selectEncoder called again and again in one session, for one  *)
(* job and one output format, with the capability cache between the calls. *)
(***************************************************************************)
SelCalls == 2    \* calls of selectEncoder in a session

PureVideos == {[width |-> 0, height |-> 0], Res1080, Res2160}
PureRuntimes ==
    {NoWebCodecs, Desktop, [Desktop EXCEPT !.res = {Res2160, Res1440, Res1080}]}

\* What `await initWebCodecs()` evaluates to: the cached value, else the
\* value the probe returns.
initWebCodecsNoAwait(cache, rt) ==
    IF cache # <<>> THEN cache[1] ELSE getWebCodecsCapabilities(NoWebCodecs)

initWebCodecs(cache, rt) ==
    IF cache # <<>> THEN cache[1] ELSE getWebCodecsCapabilities(rt)

\* sel.answers[k] is what canEncodeVideo answers, at the exact size, to the
\* k-th call.
InitPure ==
    /\ sel \in [video : PureVideos, outputFormat : Formats, rt : PureRuntimes,
                answers : [1..SelCalls -> BOOLEAN], results : {<<>>}]
    /\ wk = InitWk
    /\ items = <<>>
    /\ settings = getDefaultSettings
    /\ queue = <<>>
    /\ isProcessing = FALSE
    /\ webCodecsCapabilities = <<>>
    /\ runtime = Desktop
    /\ procs = [p \in Procs |-> IdleProc]
    /\ worker = 0
    /\ workerReady = FALSE
    /\ workerLoading = FALSE
    /\ pendingCallbacks = <<>>
    /\ wreqs = {}
    /\ urls = {}
    /\ hist = InitHist

PureFrame ==
    UNCHANGED <<wk, items, settings, queue, isProcessing, runtime, procs, worker,
                workerReady, workerLoading, pendingCallbacks, wreqs, urls, hist>>

\* One more call of selectEncoder(video, outputFormat), from entry to return;
\* the AV1 rule returns before initWebCodecs is called.
SelectEncoderAgain ==
    /\ Len(sel.results) < SelCalls
    /\ LET capabilities == initWebCodecs(webCodecsCapabilities, sel.rt)
           codecs == getRecommendedCodecs(webCodecsFormat(sel.outputFormat))
           isSupported == isEncodingSupported(sel.rt, codecs.video, codecs.audio,
                                              sel.answers[Len(sel.results) + 1])
       IN sel' = [sel EXCEPT !.results =
                      Append(@, selectEncoder(sel.video, sel.outputFormat,
                                              capabilities, isSupported))]
    /\ webCodecsCapabilities' =
           IF sel.outputFormat # "av1" /\ webCodecsCapabilities = <<>>
           THEN <<getWebCodecsCapabilities(sel.rt)>>
           ELSE webCodecsCapabilities
    /\ PureFrame

\* processQueue: await initWebCodecs(), which fills the cache.
InitWebCodecsByDrain ==
    /\ webCodecsCapabilities = <<>>
    /\ webCodecsCapabilities' = <<getWebCodecsCapabilities(sel.rt)>>
    /\ UNCHANGED sel
    /\ PureFrame

NextPure == SelectEncoderAgain \/ InitWebCodecsByDrain

SpecPure == InitPure /\ [][NextPure]_vars

AtMostOneProcessing ==
    Cardinality({i \in DOMAIN items : items[i].status = "processing"}) <= 1

\* The status of job id before and after a step; "removed" when the job is
\* not in the list.
StatusBefore(id) == StatusOf(items, id)
StatusAfter(id)  == StatusOf(items', id)

StatusChanged(id) ==
    /\ StatusBefore(id) # "removed"
    /\ StatusAfter(id) # "removed"
    /\ StatusBefore(id) # StatusAfter(id)

SpecEdges ==
    {<<"pending", "processing">>, <<"processing", "completed">>,
     <<"processing", "error">>, <<"error", "processing">>,
     <<"completed", "pending">>}

FailsWith(p, f) ==
    \/ f = LoadFailure /\ LoadReply(p, "failed")
    \/ f = WorkerErrorEvent /\ LoadReply(p, "onerror")
    \/ f = EncodeFailure /\ HwDone(p, FALSE)
    \/ f = EncodeFailure /\ ReadDone(p, FALSE)
    \/ /\ f = EncodeFailure
       /\ procs[p].pc = "sent"
       /\ HasCallback(pendingCallbacks, <<"", procs[p].job>>)
       /\ GetCallback(pendingCallbacks, <<"", procs[p].job>>) = p
       /\ WorkerReply(procs[p].job, FALSE)

Failures == {LoadFailure, WorkerErrorEvent, EncodeFailure}

\* The ids waiting in the queue whose job is pending.
StillPending ==
    LET Keep(id) == StatusOf(items, id) = "pending" IN SelectSeq(queue, Keep)

\* The drain d goes on after a failed run: the first queued job that is
\* still pending is processing in the next state, and when there is none the
\* drain ends.
DrainContinues(d) ==
    IF StillPending # <<>>
    THEN /\ procs'[d].job = Head(StillPending)
         /\ StatusAfter(Head(StillPending)) = "processing"
         /\ isProcessing'
    ELSE /\ procs'[d].pc = "idle"
         /\ ~isProcessing'
         /\ queue' = <<>>

FailedJobMarked(d, message) ==
    HasItem(items, procs[d].job) =>
        /\ StatusAfter(procs[d].job) = "error"
        /\ getItemById(items', procs[d].job).error = message

WaitsInQueue(id) ==
    /\ isProcessing
    /\ \E i \in DOMAIN queue : queue[i] = id
    /\ StatusOf(items, id) = "pending"

Settled(id) == StatusOf(items, id) \in {"completed", "error", "removed"}

RemovedJobs == {id \in JobIds : id < hist.nextId /\ ~HasItem(items, id)}

\* C4: at most one drain loop is active, and isProcessing tells whether one
\* is; ids that processVideos receives while a drain is active go to the tail
\* of the queue; the drain starts a job only when its previous job is over,
\* and the job it starts is the first pending one in queue order.
IsPrefix(q, r) == Len(q) <= Len(r) /\ SubSeq(r, 1, Len(q)) = q

OneDrain ==
    /\ Cardinality({d \in Drains : procs[d].pc # "idle"}) <= 1
    /\ isProcessing <=> \E d \in Drains : procs[d].pc # "idle"

\* What the drain picks from: the queue, or the ids just passed to
\* processVideos when the step starts the drain.
Offered == IF isProcessing THEN queue ELSE queue \o IdsWithStatus(items, "pending")

DrainStartsInOrder(d) ==
    (procs'[d].job # 0 /\ procs'[d].job # procs[d].job) =>
        LET k == Len(Offered) - Len(queue')
        IN /\ k \in 1..Len(Offered)
           /\ Offered[k] = procs'[d].job
           /\ queue' = SubSeq(Offered, k + 1, Len(Offered))
           /\ \A i \in 1..(k - 1) : StatusAfter(Offered[i]) # "pending"
           /\ procs[d].job # 0 =>
                 StatusAfter(procs[d].job) \in {"completed", "error", "removed"}

LateIdsGoToTail ==
    (isProcessing /\ \A d \in Drains : procs'[d] = procs[d]) => IsPrefix(queue, queue')

QueueIsFIFO ==
    /\ []OneDrain
    /\ [][LateIdsGoToTail /\ \A d \in Drains : DrainStartsInOrder(d)]_vars

\* A drain is encoding a job while the queue holds the same id twice: the
\* second copy was appended while the drain was active.
QueueIsFIFOWitness ==
    /\ \E d \in Drains : procs[d].job # 0
    /\ \E i \in DOMAIN queue, k \in DOMAIN queue : i < k /\ queue[i] = queue[k]

\* C29: when no drain loop is executing the queue is empty and isProcessing
\* is false: no id is left in the queue without a drain to take it, and
\* isProcessing is true only while a drain is active.
NoDrainNoQueue ==
    (\A d \in Drains : procs[d].pc = "idle") => (queue = <<>> /\ ~isProcessing)

\* The drain has ended after a job it ran and a job that was removed while it
\* waited in the queue.
NoDrainNoQueueWitness ==
    /\ \A d \in Drains : procs[d].pc = "idle"
    /\ queue = <<>>
    /\ ~isProcessing
    /\ \E id \in JobIds : StatusOf(items, id) \in {"completed", "error"}
    /\ RemovedJobs # {}
    /\ \A p \in Procs : procs[p].pc = "idle"

\* The activations suspended in getWebCodecsCapabilities.
Probing == {p \in Procs : procs[p].pc \in {"probe", "selprobe"}}

\* C7: a caller of initWorker that found a load in flight never creates a
\* Worker of its own: one Worker, one 'load', and the waiting caller settles
\* with the load it waited for.
WaitersShareOneLoad ==
    [][\A p \in Procs : procs[p].pc = "poll" => procs'[p].pc # "loading"]_vars

\* C10: getWebCodecsCapabilities runs at most once per session: no two probes
\* are in flight together and none is in flight once a value is cached.
ProbeRunsOnce ==
    /\ Cardinality(Probing) <= 1
    /\ webCodecsCapabilities # <<>> => Probing = {}

\* C13: once a job has been removed, by removeItem or by clearAll, no object
\* URL created for it (original, compressed, preview) is left unrevoked, also
\* when its encode was running at the time and the result arrives later.
RemovedJobsHoldNoUrl == \A url \in urls : url[1] \notin RemovedJobs

\* worker.onmessage 'progress': the progress is stored on the job.
onWorkerProgress(its, id, progress) == updateItem(its, id, [progress |-> progress])

\* A run starts only for a job that is in the list.
StartsOnlyListedJobs ==
    \A p \in Procs, id \in JobIds :
        (procs'[p].job = id /\ procs[p].job # id) =>
            HasItem(items, id) /\ HasItem(items', id)

\* The run of a removed job ends, by success or by failure: the list is left
\* as it is, but for the next job that the caller of the run starts at once.
LateResultIgnored ==
    \A p \in Procs :
        (procs[p].job \in RemovedJobs /\ procs'[p].job # procs[p].job) =>
            items' = IF procs'[p].job # 0 THEN compressVideoStart(items, procs'[p].job)
                     ELSE items

\* C14: a removed job is never started, by the drain or by reprocessAllVideos,
\* and never comes back into the list; a progress, completion or error report
\* for an id that is not in the list changes neither the list nor any job.
RemovedJobsStayRemoved ==
    /\ [](\A id \in RemovedJobs :
            /\ onWorkerProgress(items, id, 50) = items
            /\ compressVideoCatch(items, id, "Compression failed") = items
            /\ compressVideoDone(Cur, id).items = items)
    /\ [][/\ StartsOnlyListedJobs
          /\ LateResultIgnored
          /\ \A id \in RemovedJobs : ~HasItem(items', id)]_vars

\* The encode of a removed job has completed (its result URL exists) while
\* another job is in the list and no run is left.
RemovedJobsStayRemovedWitness ==
    \E a \in RemovedJobs, b \in JobIds :
        /\ <<a, "compressed", 1>> \in urls
        /\ HasItem(items, b)
        /\ \A p \in Procs : procs[p].pc = "idle"

\* C15: reprocessVideo called for a job that is pending or processing starts
\* no encode and leaves the job, and the rest of the list, as it was.
RetryOnlyFromError ==
    \A id \in JobIds :
        (StatusOf(items, id) \in {"pending", "processing"} /\ procs[Rv(id)].pc = "idle") =>
            LET m == reprocessVideo(Cur, Rv(id), id)
            IN m.items = items /\ m.procs = procs

\* A job as reprocessAllVideos must leave it: pending, without its earlier
\* result, with the global output format.
ResetJob(item) ==
    [item EXCEPT !.status = "pending", !.compressedSize = 0, !.compressedUrl = NoUrl,
                 !.compressedBlob = "none", !.previewUrl = NoUrl,
                 !.outputFormat = settings.outputFormat]

\* C16: the task that runs reprocessAllVideos resets every job that was
\* completed to pending, with compressedSize, compressedBlob, compressedUrl and
\* previewUrl cleared, the global output format and its old result URL revoked;
\* only the first of them is already processing (its reset fields kept) when
\* the task ends; the other jobs, the ids and the order are unchanged.
ReprocessAllResetsCompleted ==
    [][HandleRecompressAll =>
        /\ Len(items') = Len(items)
        /\ \A i \in DOMAIN items :
              /\ items'[i] =
                    IF items[i].status # "completed" THEN items[i]
                    ELSE IF procs'[Ra].job = items[i].id
                         THEN [ResetJob(items[i]) EXCEPT !.status = "processing"]
                         ELSE ResetJob(items[i])
              /\ items[i].status = "completed" => items[i].compressedUrl \notin urls'
        /\ procs'[Ra].job = Head(IdsWithStatus(items, "completed"))]_vars

\* reprocessAllVideos is re-encoding one job while a second one, reset with
\* it, waits for its turn as pending without a result.
ReprocessAllResetsCompletedWitness ==
    /\ procs[Ra].pc # "idle"
    /\ StatusOf(items, procs[Ra].job) = "processing"
    /\ \E id \in JobIds :
          /\ id # procs[Ra].job
          /\ Len(procs[Ra].rest) > 0 /\ Head(procs[Ra].rest) = id
          /\ HasItem(items, id)
          /\ getItemById(items, id) = ResetJob(getItemById(items, id))

(***************************************************************************)
(* FairSpec: the queue drain with the page's preload, under the scheduling *)
(* the browser gives: a task of the drain that can run is run, and the     *)
(* worker that was asked to load answers                                   *)
(***************************************************************************)
NextDrain ==
    \/ AddFiles
    \/ HandleCompressAll
    \/ \E id \in JobIds : HandleRemove(id)
    \/ preloadFFmpeg
    \/ SystemNext

\* The tasks that resume the drain.
DrainNext ==
    \E d \in Drains :
        \/ ProbeDone(d)
        \/ QueryDone(d)
        \/ \E b \in BOOLEAN : HwDone(d, b)
        \/ PollWake(d)
        \/ \E b \in BOOLEAN : ReadDone(d, b)
        \/ \E b \in BOOLEAN : procs[d].pc = "sent" /\ WorkerReply(procs[d].job, b)

\* The answer to a 'load' request, whoever made it.
LoadNext ==
    \E p \in Procs, o \in {"loaded", "failed", "onerror"} : LoadReply(p, o)

FairSpec ==
    /\ Init /\ [][NextDrain]_vars
    /\ WF_vars(DrainNext)
    /\ WF_vars(LoadNext)

(***************************************************************************)
(* FairLive: the orchestrator with generatePreview, under the fairness of  *)
(* the event loop, of a worker that answers every request and of encoders  *)
(* that return.  wk.previews holds the preview requests the worker has not *)
(* answered.  A preview is asked for once FFmpeg is loaded, for a job that *)
(* has none.                                                               *)
(***************************************************************************)
InitLive ==
    /\ sel = InitSel
    /\ wk = [pc |-> "off", previews |-> {}]
    /\ items = <<>>
    /\ settings = getDefaultSettings
    /\ queue = <<>>
    /\ isProcessing = FALSE
    /\ webCodecsCapabilities = <<>>
    /\ runtime \in MainRuntimes
    /\ procs = [p \in Procs |-> IdleProc]
    /\ worker = 0
    /\ workerReady = FALSE
    /\ workerLoading = FALSE
    /\ pendingCallbacks = <<>>
    /\ wreqs = {}
    /\ urls = {}
    /\ hist = InitHist

\* generatePreview(id) up to the 'preview' request it posts.
LivePreview(id) ==
    /\ HasItem(items, id)
    /\ getItemById(items, id).previewUrl = NoUrl
    /\ worker # 0 /\ workerReady
    /\ id \notin wk.previews
    /\ wk' = [wk EXCEPT !.previews = @ \cup {id}]
    /\ Commit([Cur EXCEPT !.pendingCallbacks = PutCallback(@, PreviewKey(id), Pl)])
    /\ UNCHANGED <<sel, settings, runtime>>

\* worker.onmessage 'preview-complete' / 'error' for preview request id.
LivePreviewReply(id, ok) ==
    /\ id \in wk.previews
    /\ wk' = [wk EXCEPT !.previews = @ \ {id}]
    /\ LET type == IF ok THEN "preview-complete" ELSE "error"
           settled == onmessageSettled(pendingCallbacks, type, id)
           m == [Cur EXCEPT !.pendingCallbacks = DeleteCallbacks(@, settled)]
           m1 == IF PreviewKey(id) \in settled /\ ok /\ HasItem(m.items, id)
                 THEN LET previewUrl == createObjectURL(m.urls, id, "preview")
                      IN [m EXCEPT !.urls = @ \cup {previewUrl},
                                   !.items = updateItem(@, id, [previewUrl |-> previewUrl])]
                 ELSE m
       IN Commit(IF CompressKey(id) \in settled
                 THEN endRun(m1, GetCallback(pendingCallbacks, CompressKey(id)), FALSE,
                             EncodeFailure)
                 ELSE m1)
    /\ UNCHANGED <<sel, settings, runtime>>

NextLive ==
    \/ NextDrain
    \/ \E id \in JobIds : HandleRetry(id)
    \/ \E id \in JobIds : LivePreview(id)
    \/ \E id \in JobIds, ok \in BOOLEAN : LivePreviewReply(id, ok)

\* The tasks that resume the drain, the answer to its 'load' request included.
DrainLive ==
    \/ DrainNext
    \/ \E d \in Drains, o \in {"loaded", "failed", "onerror"} : LoadReply(d, o)

\* A drain that waits in initWorker for a load to end looks at workerLoading
\* every 100 ms: it wakes up when the flag is down again and again.
FairLive ==
    /\ InitLive /\ [][NextLive]_vars
    /\ WF_vars(DrainLive)
    /\ WF_vars(LoadNext)
    /\ SF_vars(\E d \in Drains : PollWake(d))

PanelQualities == {"web", "high"}
PanelFormats   == {"mp4", "webm"}
\* What the target size field holds when it is committed, in MB; 0 stands for
\* an empty or invalid entry.
TargetSizeInputs == {0, 16}

\* videos.updateSettings that rewrites the format of every job.
updateSettingsItemsAll(its, newSettings) ==
    IF "outputFormat" \in DOMAIN newSettings
    THEN [i \in DOMAIN its |-> [its[i] EXCEPT !.outputFormat = newSettings.outputFormat]]
    ELSE its

\* videos.updateSettings, what it does to the job list.
updateSettingsItems(its, newSettings) ==
    IF "outputFormat" \in DOMAIN newSettings
    THEN [i \in DOMAIN its |->
            IF its[i].status = "pending"
            THEN [its[i] EXCEPT !.outputFormat = newSettings.outputFormat]
            ELSE its[i]]
    ELSE its

updateSettings(st, newSettings) ==
    [st EXCEPT !.settings = newSettings @@ st.settings,
               !.items = updateSettingsItems(st.items, newSettings)]

suggestOptimalSettings(video) ==
    IF video.bitrate # 0 /\ video.bitrate > 20000000
    THEN [preset |-> "web", format |-> "mp4", resolution |-> "original"]
    ELSE IF video.width # 0 /\ video.width >= 3840
    THEN [preset |-> "social", format |-> "mp4", resolution |-> "1080p"]
    ELSE IF video.duration # 0 /\ video.duration > 600
    THEN [preset |-> "tiny", format |-> "mp4", resolution |-> "original"]
    ELSE IF video.duration # 0 /\ video.duration < 30
    THEN [preset |-> "high", format |-> "mp4", resolution |-> "original"]
    ELSE IF video.bitrate # 0 /\ video.bitrate < 2000000
    THEN [preset |-> "high", format |-> "mp4", resolution |-> "original"]
    ELSE [preset |-> "web", format |-> "mp4", resolution |-> "original"]

\* The store after a handler of the panel: st holds the settings and the list.
CommitStore(st, mode) ==
    /\ settings' = st.settings
    /\ items' = st.items
    /\ hist' = [hist EXCEPT !.mode = mode]
    /\ UNCHANGED <<sel, wk, runtime, queue, isProcessing, webCodecsCapabilities,
                   procs, worker, workerReady, workerLoading, pendingCallbacks, wreqs,
                   urls>>

Store == [settings |-> settings, items |-> items]

\* AdvancedSettings: a quality preset button.
handlePresetClick(key) ==
    /\ hist.mounted
    /\ CommitStore(updateSettings(Store, [quality |-> key, targetSizeMB |-> 0]), "quality")

\* +page: the keys 1-5.
HandleKeydownPreset(key) ==
    /\ hist.mounted
    /\ CommitStore(updateSettings(Store, [quality |-> key]), "quality")

\* AdvancedSettings: a format button; +page: the keys M and W.
HandleSettingsFormat(format) ==
    /\ hist.mounted
    /\ CommitStore(updateSettings(Store, [outputFormat |-> format]), hist.mode)

\* AdvancedSettings: the target size field committed with the value it holds.
handleTargetSizeChange(value) ==
    /\ hist.mounted
    /\ CommitStore(updateSettings(Store, [targetSizeMB |-> IF value > 0 THEN value ELSE 0]),
                   IF value > 0 THEN "size" ELSE "none")

\* AdvancedSettings: a size preset (WhatsApp, 16 MB).
handleSizePresetClick(sizeMB) ==
    /\ hist.mounted
    /\ CommitStore(updateSettings(Store, [targetSizeMB |-> sizeMB]), "size")

\* AdvancedSettings: the clear button of the target size.
clearTargetSize ==
    /\ hist.mounted
    /\ settings.targetSizeMB # 0
    /\ CommitStore(updateSettings(Store, [targetSizeMB |-> 0]), "none")

\* VideoCard: Apply Settings in the suggestion of a pending job whose bitrate
\* is known.
applySuggestion(id) ==
    /\ StatusOf(items, id) = "pending"
    /\ VideoOf(id).bitrate # 0
    /\ LET suggestion == suggestOptimalSettings(VideoOf(id))
           st == updateSettings(Store, [quality |-> suggestion.preset,
                                        outputFormat |-> suggestion.format,
                                        resolution |-> suggestion.resolution])
       IN CommitStore([st EXCEPT !.items =
                            updateItem(@, id, [outputFormat |-> suggestion.format])],
                      "quality")

\* AdvancedSettings: the two-pass checkbox.
HandleTwoPass(checked) ==
    /\ hist.mounted
    /\ checked # settings.twoPass
    /\ CommitStore(updateSettings(Store, [twoPass |-> checked]), hist.mode)

PanelNext ==
    \/ \E key \in PanelQualities : handlePresetClick(key)
    \/ \E key \in PanelQualities : HandleKeydownPreset(key)
    \/ \E v \in TargetSizeInputs : handleTargetSizeChange(v)
    \/ \E v \in TargetSizeInputs \ {0} : handleSizePresetClick(v)
    \/ clearTargetSize
    \/ \E id \in JobIds : applySuggestion(id)

NextPanel == NextDrain \/ PanelNext

SpecPanel == Init /\ [][NextPanel]_vars

\* C18: when the last thing the user chose is a quality preset (preset button,
\* key 1-5, suggestion), the bitrate of an encode that starts now is the
\* preset's, on both encoder paths, whatever target size was set before.
LastChosenModeSetsBitrate ==
    hist.mode = "quality" =>
        \A i \in DOMAIN items :
            /\ ffmpegEarlyArgs(items[i], settings).targetBitrate
                   = QUALITY_PRESETS[settings.quality].targetBitrate
            /\ webCodecsArgs(items[i], settings).bitrate
                   = webCodecsBitrate(settings.quality)

NextTwoPass == NextDrain \/ \E checked \in BOOLEAN : HandleTwoPass(checked)

SpecTwoPass == Init /\ [][NextTwoPass]_vars

\* QUALITY_MAP[qualityPreset] || QUALITY_MEDIUM: a Quality of Mediabunny.
QUALITY_MAP(qualityPreset) ==
    IF qualityPreset = "tiny" THEN "QUALITY_VERY_LOW"
    ELSE IF qualityPreset = "web" THEN "QUALITY_LOW"
    ELSE IF qualityPreset = "social" THEN "QUALITY_MEDIUM"
    ELSE IF qualityPreset = "high" THEN "QUALITY_HIGH"
    ELSE IF qualityPreset = "lossless" THEN "QUALITY_VERY_HIGH"
    ELSE "QUALITY_MEDIUM"

\* encodeWithWebCodecs: the video options it gives to Conversion.init. A
\* bitrate is a Quality (bits 0) or a number of bit/s (quality "none").
conversionVideo(config, qualityPreset) ==
    [bitrate |-> [quality |-> QUALITY_MAP(qualityPreset), bits |-> 0],
     width |-> config.width, height |-> config.height]

\* C25: a job is in the hands of the hardware encoder and the target size has
\* been the same since the job was dequeued: the encoder is configured with the
\* bitrate back-solved from the target size.
HardwareUsesTargetSizeBitrate ==
    \A p \in Procs :
        (/\ procs[p].pc = "hw"
         /\ procs[p].args # <<>>
         /\ procs[p].snap = <<settings>>
         /\ settings.targetSizeMB # 0) =>
            conversionVideo(procs[p].args[1], procs[p].args[1].quality).bitrate
                = [quality |-> "none",
                   bits |-> calculateBitrateForSize(VideoItem(procs[p].item[1]),
                                                    settings.targetSizeMB)]

\* C22: a job that was dequeued with the two-pass setting enabled, the setting
\* still being enabled, is not in the hands of the WebCodecs encoder.
TwoPassUsesSoftware ==
    \A p \in Procs :
        (procs[p].pc = "hw" /\ procs[p].snap # <<>>) =>
            ~(procs[p].snap[1].twoPass /\ settings.twoPass)

FormatNext ==
    \/ \E f \in PanelFormats : HandleSettingsFormat(f)
    \/ \E key \in PanelQualities : HandleKeydownPreset(key)

NextFormat == NextDrain \/ FormatNext

SpecFormat == Init /\ [][NextFormat]_vars

\* The arguments the run would send had it read every setting from the
\* settings of the moment its job was dequeued.
ArgsFromSnapshot(run) ==
    IF run.pc = "hw" THEN webCodecsArgs(run.item[1], run.snap[1])
    ELSE ffmpegPayload(ffmpegEarlyArgs(run.item[1], run.snap[1]), run.snap[1])

\* C11: the arguments sent for a job (bitrate, CRF, two-pass flag, resolution,
\* quality) are the ones given by the settings as they were when the job was
\* dequeued, whatever updateSettings did while the job was being prepared.
EncodeUsesDequeueSettings ==
    \A p \in Procs :
        procs[p].args # <<>> => procs[p].args[1] = ArgsFromSnapshot(procs[p])

\* C12: updateSettings with an outputFormat sets the outputFormat of exactly
\* the jobs that are pending at that moment and leaves every other job, the
\* ids and the order as they are; updateSettings without an outputFormat
\* changes no job.
FormatReachesPendingOnly ==
    [][/\ \A f \in PanelFormats :
             HandleSettingsFormat(f) =>
                 /\ Len(items') = Len(items)
                 /\ \A i \in DOMAIN items :
                        items'[i] = IF items[i].status = "pending"
                                    THEN [items[i] EXCEPT !.outputFormat = f]
                                    ELSE items[i]
        /\ \A key \in PanelQualities :
             HandleKeydownPreset(key) => items' = items]_vars

\* The format was switched to WebM while one job was waiting and another was
\* being encoded, had been encoded or had failed as MP4.
FormatReachesPendingOnlyWitness ==
    /\ settings.outputFormat = "webm"
    /\ \E i \in DOMAIN items, k \in DOMAIN items :
          /\ items[i].status = "pending"
          /\ items[i].outputFormat = "webm"
          /\ items[k].status \in {"processing", "completed", "error"}
          /\ items[k].outputFormat = "mp4"

(***************************************************************************)
(* SpecWorker: one 'compress' request inside the FFmpeg worker             *)
(***************************************************************************)
InputFile  == "input"                      \* input_<id>.<ext>
OutputFile == "output"                     \* output_<id>.<format>
PassLogs   == {"ffmpeg2pass-0.log", "ffmpeg2pass-0.log.mbtree"}

\* The fraction of the running exec that FFmpeg reports, in percent.
ProgressRatios == {0, 20, 50, 100}


\* postProgress, and worker.onmessage 'progress' storing it on the job.
postProgress(w, progress) == [w EXCEPT !.progress = progress]

\* settings.twoPass && outputFormat !== 'webm'
UsesTwoPass(w) == w.twoPass /\ w.outputFormat # "webm"

InitWorkerSpec ==
    /\ wk \in [pc : {"start"}, twoPass : BOOLEAN, outputFormat : Formats,
               fs : {{}}, lastProgress : {0}, progress : {0}]
    /\ sel = InitSel
    /\ items = <<>>
    /\ settings = getDefaultSettings
    /\ queue = <<>>
    /\ isProcessing = FALSE
    /\ webCodecsCapabilities = <<>>
    /\ runtime = Desktop
    /\ procs = [p \in Procs |-> IdleProc]
    /\ worker = 0
    /\ workerReady = FALSE
    /\ workerLoading = FALSE
    /\ pendingCallbacks = <<>>
    /\ wreqs = {}
    /\ urls = {}
    /\ hist = InitHist

WorkerFrame == UNCHANGED <<sel, mainVars>>

\* compressVideo is entered and suspends in writeFile.
WorkerCompressStart ==
    /\ wk.pc = "start"
    /\ wk' = [postProgress(wk, 5) EXCEPT !.pc = "writing"]
    /\ WorkerFrame

\* writeFile returns or throws; on return the listener is registered and the
\* first exec is started.
WriteFileDone(ok) ==
    /\ wk.pc = "writing"
    /\ wk' = IF ~ok THEN [wk EXCEPT !.pc = "failed"]
             ELSE LET w1 == [postProgress(wk, 15) EXCEPT !.fs = @ \cup {InputFile},
                                                         !.lastProgress = 15]
                  IN IF UsesTwoPass(w1)
                     THEN [postProgress(w1, 20) EXCEPT !.pc = "pass1"]
                     ELSE [w1 EXCEPT !.pc = "encode"]
    /\ WorkerFrame

\* ffmpeg.on('progress') while an exec runs.
OnProgress(ratio) ==
    /\ wk.pc \in {"pass1", "encode"}
    /\ LET compressionProgress == 15 + ((ratio * 75 + 50) \div 100)
       IN /\ compressionProgress > wk.lastProgress
          /\ wk' = [postProgress(wk, Min(90, compressionProgress))
                        EXCEPT !.lastProgress = compressionProgress]
    /\ WorkerFrame

\* The first-pass exec returns or throws; logs = the log files it has written
\* by then.
FirstPassDone(ok, logs) ==
    /\ wk.pc = "pass1"
    /\ ok => logs = PassLogs
    /\ wk' = IF ok THEN [postProgress(wk, 50) EXCEPT !.fs = @ \cup logs, !.pc = "encode"]
             ELSE [wk EXCEPT !.fs = @ \cup logs, !.pc = "failed"]
    /\ WorkerFrame

\* The encoding exec returns or throws; written = the output file is there.
ExecDone(ok, written) ==
    /\ wk.pc = "encode"
    /\ ok => written
    /\ LET fs1 == IF written THEN wk.fs \cup {OutputFile} ELSE wk.fs
       IN wk' = IF ok THEN [postProgress(wk, 92) EXCEPT !.fs = fs1, !.pc = "reading"]
                ELSE [wk EXCEPT !.fs = fs1, !.pc = "failed"]
    /\ WorkerFrame

\* readFile returns or throws; on return the files are deleted and the
\* result is posted.
ReadFileDone(ok) ==
    /\ wk.pc = "reading"
    /\ wk' = IF ok
             THEN [postProgress(wk, 100) EXCEPT
                      !.fs = (@ \ {InputFile, OutputFile}) \ PassLogs,
                      !.pc = "done"]
             ELSE [wk EXCEPT !.pc = "failed"]
    /\ WorkerFrame

NextWorker ==
    \/ WorkerCompressStart
    \/ \E ok \in BOOLEAN : WriteFileDone(ok)
    \/ \E r \in ProgressRatios : OnProgress(r)
    \/ \E ok \in BOOLEAN, logs \in SUBSET PassLogs : FirstPassDone(ok, logs)
    \/ \E ok \in BOOLEAN, written \in BOOLEAN : ExecDone(ok, written)
    \/ \E ok \in BOOLEAN : ReadFileDone(ok)

SpecWorker == InitWorkerSpec /\ [][NextWorker]_vars

\* C8: when the worker's compressVideo has ended, by success or by failure,
\* the input file, the output file and the two-pass logs are gone from the
\* virtual file system.
WorkerFilesRemoved == wk.pc \in {"done", "failed"} => wk.fs = {}

\* C9: within one run, the progress stored on the job never decreases.
ProgressNeverDecreases == [][wk'.progress >= wk.progress]_vars

(***************************************************************************)
(* SpecReports: the jobs of the list encoded one after the other by the    *)
(* FFmpeg worker, with the progress listeners the worker registers and the *)
(* reports worker.onmessage and compressVideo store on the jobs.           *)
(***************************************************************************)
\* videos.addFiles: the item, with its progress.
ReportItem(id) == [progress |-> 0] @@ NewItem(id, "mp4", NoUrl)

\* wk.lastProgress[l] is the lastProgress of the listener that the compress
\* request of job l has registered with ffmpeg.on('progress'); no listener is
\* ever taken off.
InitReports ==
    /\ wk = [pc |-> "idle", job |-> 0, lastProgress |-> [l \in {} |-> 0]]
    /\ items = [i \in JobIds |-> ReportItem(i)]
    /\ hist = [InitHist EXCEPT !.nextId = NumJobs + 1, !.mounted = TRUE]
    /\ sel = InitSel
    /\ settings = getDefaultSettings
    /\ queue = <<>>
    /\ isProcessing = FALSE
    /\ webCodecsCapabilities = <<>>
    /\ runtime = Desktop
    /\ procs = [p \in Procs |-> IdleProc]
    /\ worker = 0
    /\ workerReady = FALSE
    /\ workerLoading = FALSE
    /\ pendingCallbacks = <<>>
    /\ wreqs = {}
    /\ urls = {}

ReportsFrame ==
    UNCHANGED <<sel, settings, queue, isProcessing, webCodecsCapabilities, runtime,
                procs, worker, workerReady, workerLoading, pendingCallbacks, wreqs,
                hist>>

\* worker.onmessage 'progress' for each of the listeners that post.
RECURSIVE onWorkerProgressAll(_, _, _)
onWorkerProgressAll(its, ids, progress) ==
    IF ids = {} THEN its
    ELSE LET id == CHOOSE l \in ids : TRUE
         IN onWorkerProgressAll(onWorkerProgress(its, id, progress), ids \ {id}, progress)

\* The drain starts the earliest pending job: compressVideo marks it, the
\* worker's compressVideo posts 5 and 15, registers its listener and starts
\* the exec.
ReportsStart(id) ==
    /\ wk.pc = "idle"
    /\ IdsWithStatus(items, "pending") # <<>>
    /\ id = Head(IdsWithStatus(items, "pending"))
    /\ items' = onWorkerProgress(
                    updateItem(compressVideoStart(items, id), id, [progress |-> 0]),
                    id, 15)
    /\ wk' = [pc |-> "exec", job |-> id, lastProgress |-> (id :> 15) @@ wk.lastProgress]
    /\ urls' = urls
    /\ ReportsFrame

\* FFmpeg emits 'progress' during the exec: every registered listener runs.
ReportsProgress(ratio) ==
    /\ wk.pc = "exec"
    /\ LET compressionProgress == 15 + ((ratio * 75 + 50) \div 100)
           posting == {l \in DOMAIN wk.lastProgress :
                          compressionProgress > wk.lastProgress[l]}
       IN /\ posting # {}
          /\ wk' = [wk EXCEPT !.lastProgress =
                        [l \in DOMAIN @ |-> IF l \in posting THEN compressionProgress
                                            ELSE @[l]]]
          /\ items' = onWorkerProgressAll(items, posting, Min(90, compressionProgress))
    /\ urls' = urls
    /\ ReportsFrame

\* The exec returns: the worker posts 92, 100 and 'complete' and compressVideo
\* stores the result; or it throws: the worker posts 'error' and compressVideo
\* stores the failure.
ReportsEnd(ok) ==
    /\ wk.pc = "exec"
    /\ LET m == compressVideoDone([Cur EXCEPT !.items = onWorkerProgress(@, wk.job, 100)],
                                  wk.job)
       IN IF ok
          THEN /\ items' = updateItem(m.items, wk.job, [progress |-> 100])
               /\ urls' = m.urls
          ELSE /\ items' = compressVideoCatch(items, wk.job, "Compression failed")
               /\ urls' = urls
    /\ wk' = [wk EXCEPT !.pc = "idle", !.job = 0]
    /\ ReportsFrame

\* VideoCard: the remove button.
ReportsRemove(id) ==
    /\ HasItem(items, id)
    /\ items' = removeItem(Cur, id).items
    /\ urls' = removeItem(Cur, id).urls
    /\ UNCHANGED wk
    /\ ReportsFrame

NextReports ==
    \/ \E id \in JobIds : ReportsStart(id)
    \/ \E id \in JobIds : ReportsRemove(id)
    \/ \E ratio \in ProgressRatios : ReportsProgress(ratio)
    \/ \E ok \in BOOLEAN : ReportsEnd(ok)

SpecReports == InitReports /\ [][NextReports]_vars

\* C23: a step changes the fields of a job only if the job is processing, or
\* is the pending job that the drain starts in this step; a job that is
\* completed or has failed is changed by no report.
ReportsReachProcessingOnly ==
    [][\A id \in JobIds :
          (/\ HasItem(items, id)
           /\ HasItem(items', id)
           /\ getItemById(items', id) # getItemById(items, id)) =>
              \/ StatusOf(items, id) = "processing"
              \/ StatusOf(items, id) = "pending" /\ StatusOf(items', id) = "processing"]_vars

\* C30: a completed job has progress 100 and its compressedBlob,
\* compressedSize and compressedUrl set; a pending job has none of the three
\* set.
ResultFieldsFollowStatus ==
    \A i \in DOMAIN items :
        LET item == items[i]
        IN /\ item.status = "completed" =>
                /\ item.progress = 100
                /\ item.compressedBlob # "none"
                /\ item.compressedSize # 0
                /\ item.compressedUrl # NoUrl
           /\ item.status = "pending" =>
                /\ item.compressedBlob = "none"
                /\ item.compressedSize = 0
                /\ item.compressedUrl = NoUrl

(***************************************************************************)
(* SpecEstimate: the estimates made for one job from its metadata, its     *)
(* trim and the settings (videos.svelte.ts, webcodecs.ts).                 *)
(***************************************************************************)
\* parseBitrate('1000k'), in bit/s, of a preset's targetBitrate.
parseBitrate(kbits) == kbits * 1000

\* Bytes. audioCodec and audioBitrate keep their defaults ('aac', '128k').
estimateFileSize(video, st) ==
    LET duration == getEffectiveDuration(video)
        videoBitrate == parseBitrate(QUALITY_PRESETS[st.quality].targetBitrate)
        audioBitrate == 128000
    IN IF st.targetSizeMB # 0 THEN st.targetSizeMB * 1024 * 1024
       ELSE IF duration <= 0 THEN 0
       ELSE IF st.quality = "lossless" THEN (video.originalSize * 9) \div 10
       ELSE RoundDiv((videoBitrate + audioBitrate) * duration, 8)

\* Math.sqrt(pixels / (1920 * 1080)), for the frame sizes whose root is whole.
SqrtPixelFactor(width, height) ==
    CHOOSE r \in 1..4 : r * r * 1920 * 1080 = width * height

\* Seconds. settings.preset keeps its default ('medium', multiplier 1); the
\* browser reports 6 logical processors, so threads = 4 and the thread factor
\* is 1. The format and two-pass multipliers are in tenths.
estimateCompressionTime(video, st) ==
    LET width == IF video.width = 0 THEN 1920 ELSE video.width
        height == IF video.height = 0 THEN 1080 ELSE video.height
        duration == IF video.duration = 0 THEN 60 ELSE video.duration
        format == IF st.outputFormat = "webm" THEN 15 ELSE 10
        twoPass == IF st.twoPass THEN 18 ELSE 10
    IN RoundDiv(duration * SqrtPixelFactor(width, height) * format * twoPass, 100)

\* encodeWithWebCodecs: totalFrames at the default fps of 30.
totalFrames(video) ==
    LET fps == 30
        trimStart == IF video.trimStart = NoTime THEN 0 ELSE video.trimStart
        trimEnd == IF video.trimEnd = NoTime THEN video.duration ELSE video.trimEnd
        effectiveDuration == trimEnd - trimStart
    IN IF effectiveDuration # video.duration THEN effectiveDuration * fps
       ELSE video.duration * fps

\* The estimates the page and the encoders make for a job.
Estimates(video, st) ==
    [size |-> estimateFileSize(video, st),
     bitrate |-> calculateBitrateForSize(video, st.targetSizeMB),
     eta |-> estimateCompressionTime(video, st),
     totalFrames |-> totalFrames(video)]

EstimateVideos ==
    {v \in [width : {1920, 3840}, height : {1080, 2160}, duration : {60, 120},
            originalSize : {50000000}, trimStart : {NoTime, 0, 10},
            trimEnd : {NoTime, 15, 60}] :
        /\ [width |-> v.width, height |-> v.height] \in {Res1080, Res2160}
        /\ (v.trimStart # NoTime /\ v.trimEnd # NoTime) => v.trimStart < v.trimEnd}

EstimateSettings ==
    {[getDefaultSettings EXCEPT !.quality = q, !.outputFormat = f, !.twoPass = t,
                                !.targetSizeMB = s] :
        q \in PanelQualities, f \in PanelFormats, t \in BOOLEAN, s \in TargetSizeInputs}

InitEstimate ==
    /\ sel \in [video : EstimateVideos, estimates : {<<>>}]
    /\ settings \in EstimateSettings
    /\ wk = InitWk
    /\ items = <<>>
    /\ queue = <<>>
    /\ isProcessing = FALSE
    /\ webCodecsCapabilities = <<>>
    /\ runtime = Desktop
    /\ procs = [p \in Procs |-> IdleProc]
    /\ worker = 0
    /\ workerReady = FALSE
    /\ workerLoading = FALSE
    /\ pendingCallbacks = <<>>
    /\ wreqs = {}
    /\ urls = {}
    /\ hist = InitHist

\* The estimates are computed for the job.
Estimate ==
    /\ sel.estimates = <<>>
    /\ sel' = [sel EXCEPT !.estimates = <<Estimates(sel.video, settings)>>]
    /\ UNCHANGED <<mainVars, wk>>

NextEstimate == Estimate

SpecEstimate == InitEstimate /\ [][NextEstimate]_vars

\* The job cut to its trim: a source that lasts trimEnd - trimStart.
CutToTrim(video) ==
    [video EXCEPT !.duration = video.trimEnd - video.trimStart,
                  !.trimStart = NoTime, !.trimEnd = NoTime]

\* C24: for a job with both trim bounds set, the estimated file size, the
\* bitrate for a target size, the first ETA and the hardware path's
\* totalFrames are those of a source that lasts trimEnd - trimStart.
EstimatesUseTrimmedDuration ==
    (/\ sel.estimates # <<>>
     /\ sel.video.trimStart # NoTime
     /\ sel.video.trimEnd # NoTime) =>
        sel.estimates[1] = Estimates(CutToTrim(sel.video), settings)

(***************************************************************************)
(* SpecChannel: the message channel between the UI thread and the FFmpeg   *)
(* worker, with compress and preview requests for the jobs of the list.    *)
(* wreqs holds the requests the worker has not answered, as <<type, id>>;  *)
(* sel remembers the last response and the callbacks it settled.           *)
(***************************************************************************)
\* The message the worker posts at the end of a request: compressVideo posts
\* 'complete', generatePreview 'preview-complete', both post 'error' on failure.
ResponseType(req, ok) ==
    IF ~ok THEN "error"
    ELSE IF req[1] = "preview" THEN "preview-complete" ELSE "complete"

NoResponse == [req |-> <<>>, type |-> "none", settled |-> {}]

InitChannel ==
    /\ sel = NoResponse
    /\ items = [i \in JobIds |-> NewItem(i, "mp4", NoUrl)]
    /\ hist = [InitHist EXCEPT !.nextId = NumJobs + 1, !.mounted = TRUE]
    /\ wk = InitWk
    /\ settings = getDefaultSettings
    /\ queue = <<>>
    /\ isProcessing = FALSE
    /\ webCodecsCapabilities = <<>>
    /\ runtime = Desktop
    /\ procs = [p \in Procs |-> IdleProc]
    /\ worker = 1
    /\ workerReady = TRUE
    /\ workerLoading = FALSE
    /\ pendingCallbacks = <<>>
    /\ wreqs = {}
    /\ urls = {}

ChannelFrame ==
    UNCHANGED <<settings, queue, isProcessing, webCodecsCapabilities, runtime,
                procs, worker, workerReady, workerLoading, hist, wk>>

\* compressVideo on the FFmpeg path: the job is marked processing and the
\* 'compress' request is posted with its callback under id.
ChannelCompress(id) ==
    /\ StatusOf(items, id) \in {"pending", "error"}
    /\ <<"compress", id>> \notin wreqs
    /\ items' = compressVideoStart(items, id)
    /\ pendingCallbacks' = PutCallback(pendingCallbacks, CompressKey(id), "compress")
    /\ wreqs' = wreqs \cup {<<"compress", id>>}
    /\ UNCHANGED <<sel, urls>>
    /\ ChannelFrame

\* generatePreview(id): the 'preview' request is posted with its callback
\* under `preview_${id}`. A job is previewed until it has a preview.
GeneratePreview(id) ==
    /\ HasItem(items, id)
    /\ getItemById(items, id).previewUrl = NoUrl
    /\ worker # 0 /\ workerReady
    /\ <<"preview", id>> \notin wreqs
    /\ pendingCallbacks' = PutCallback(pendingCallbacks, PreviewKey(id), "preview")
    /\ wreqs' = wreqs \cup {<<"preview", id>>}
    /\ UNCHANGED <<sel, items, urls>>
    /\ ChannelFrame

\* The code that awaits a settled callback goes on: compressVideo stores the
\* result or the failure, generatePreview stores the preview URL or gives up.
Continue(m, key, type) ==
    LET id == key[2]
    IN IF key[1] = ""
       THEN IF type = "error"
            THEN [m EXCEPT !.items = compressVideoCatch(@, id, EncodeFailure.message)]
            ELSE compressVideoDone(m, id)
       ELSE IF type = "error" THEN m
            ELSE LET previewUrl == createObjectURL(m.urls, id, "preview")
                 IN [m EXCEPT !.urls = @ \cup {previewUrl},
                              !.items = updateItem(@, id, [previewUrl |-> previewUrl])]

RECURSIVE ContinueAll(_, _, _)
ContinueAll(m, keys, type) ==
    IF keys = {} THEN m
    ELSE LET k == CHOOSE x \in keys : TRUE
         IN ContinueAll(Continue(m, k, type), keys \ {k}, type)

\* The worker answers request req; worker.onmessage settles what it finds.
ChannelReply(req, ok) ==
    /\ req \in wreqs
    /\ LET type == ResponseType(req, ok)
           settled == onmessageSettled(pendingCallbacks, type, req[2])
           m == ContinueAll([items |-> items, urls |-> urls], settled, type)
       IN /\ sel' = [req |-> req, type |-> type, settled |-> settled]
          /\ pendingCallbacks' = DeleteCallbacks(pendingCallbacks, settled)
          /\ items' = m.items
          /\ urls' = m.urls
    /\ wreqs' = wreqs \ {req}
    /\ ChannelFrame

NextChannel ==
    \/ \E id \in JobIds : ChannelCompress(id)
    \/ \E id \in JobIds : GeneratePreview(id)
    \/ \E req \in {"compress", "preview"} \X JobIds, ok \in BOOLEAN : ChannelReply(req, ok)

SpecChannel == InitChannel /\ [][NextChannel]_vars

\* C26: the last response of the worker settled no callback but the one of the
\* request it answers.
ResponseSettlesOwnRequest ==
    sel.settled \subseteq (IF sel.req = <<>> THEN {} ELSE {RequestKey(sel.req)})

(***************************************************************************)
(* SpecPasses: one 'compress' request from the settings of the panel to    *)
(* the FFmpeg commands the worker runs for it.  sel is the job, wk the     *)
(* request: its payload and the argument lists given to ffmpeg.exec.       *)
(***************************************************************************)
PassItems ==
    {[NewItem(1, f, NoUrl) EXCEPT !.trimStart = a, !.trimEnd = b] :
        f \in Formats, a \in {NoTime, 0, 1}, b \in {NoTime, 2, 3}}

PassSettings ==
    {[getDefaultSettings EXCEPT !.twoPass = t, !.targetSizeMB = m] :
        t \in BOOLEAN, m \in {0, 8}}

\* compressWithFFmpeg: the payload of the 'compress' message.
compressPayload(item, st) ==
    [id |-> item.id, outputFormat |-> item.outputFormat,
     settings |-> ffmpegPayload(ffmpegEarlyArgs(item, st), st),
     trimStart |-> item.trimStart, trimEnd |-> item.trimEnd]

\* The trim options of a command: -ss before the input, -t after it.
\* NoTime stands for an option that is not given.
TrimOptions(trimStart, trimEnd) ==
    [ss |-> IF trimStart # NoTime /\ trimStart > 0 THEN trimStart ELSE NoTime,
     t  |-> IF trimEnd # NoTime
            THEN trimEnd - (IF trimStart = NoTime THEN 0 ELSE trimStart)
            ELSE NoTime]

\* buildFFmpegArgs: pass 0 is a command without -pass; audio is on with the
\* default audio codec.
buildFFmpegArgs(payload) ==
    TrimOptions(payload.trimStart, payload.trimEnd)
        @@ [pass |-> 0, an |-> FALSE, output |-> OutputFile]

\* The first pass without the trim options.
firstPassArgsUntrimmed(payload) ==
    [ss |-> NoTime, t |-> NoTime, pass |-> 1, an |-> TRUE, output |-> "/dev/null"]

\* compressVideo: firstPassArgs.
firstPassArgs(payload) ==
    TrimOptions(payload.trimStart, payload.trimEnd)
        @@ [pass |-> 1, an |-> TRUE, output |-> "/dev/null"]

InitPasses ==
    /\ sel \in [item : PassItems]
    /\ settings \in PassSettings
    /\ wk = [pc |-> "unsent", payload |-> <<>>, execs |-> <<>>]
    /\ items = <<>>
    /\ queue = <<>>
    /\ isProcessing = FALSE
    /\ webCodecsCapabilities = <<>>
    /\ runtime = Desktop
    /\ procs = [p \in Procs |-> IdleProc]
    /\ worker = 1
    /\ workerReady = TRUE
    /\ workerLoading = FALSE
    /\ pendingCallbacks = <<>>
    /\ wreqs = {}
    /\ urls = {}
    /\ hist = InitHist

\* compressWithFFmpeg posts the request.
PassesPost ==
    /\ wk.pc = "unsent"
    /\ wk' = [wk EXCEPT !.pc = "start", !.payload = <<compressPayload(sel.item, settings)>>]
    /\ WorkerFrame

\* The worker's compressVideo up to its first exec.
PassesStart ==
    /\ wk.pc = "start"
    /\ LET payload == wk.payload[1]
       IN wk' = IF payload.settings.twoPass /\ payload.outputFormat # "webm"
                THEN [wk EXCEPT !.pc = "pass1",
                                !.execs = Append(@, firstPassArgs(payload))]
                ELSE [wk EXCEPT !.pc = "encode",
                                !.execs = Append(@, buildFFmpegArgs(payload))]
    /\ WorkerFrame

\* The first-pass exec returns or throws; on return '-pass 2' is pushed and
\* the encoding exec is started.
PassesFirstDone(ok) ==
    /\ wk.pc = "pass1"
    /\ wk' = IF ok
             THEN [wk EXCEPT !.pc = "encode",
                             !.execs = Append(@, [buildFFmpegArgs(wk.payload[1])
                                                     EXCEPT !.pass = 2])]
             ELSE [wk EXCEPT !.pc = "failed"]
    /\ WorkerFrame

\* The encoding exec returns or throws.
PassesEncodeDone(ok) ==
    /\ wk.pc = "encode"
    /\ wk' = [wk EXCEPT !.pc = IF ok THEN "done" ELSE "failed"]
    /\ WorkerFrame

NextPasses ==
    \/ PassesPost
    \/ PassesStart
    \/ \E ok \in BOOLEAN : PassesFirstDone(ok)
    \/ \E ok \in BOOLEAN : PassesEncodeDone(ok)

SpecPasses == InitPasses /\ [][NextPasses]_vars

\* The commands of the request are those of a two-pass run or of a one-pass
\* run: a first pass is the first command, has the audio disabled and the null
\* output, and the '-pass 2' encode is the second command, after a first pass
\* with the same trim options.
PassesWellFormed ==
    \A i \in DOMAIN wk.execs :
        LET e == wk.execs[i]
        IN /\ e.pass = 1 => (i = 1 /\ e.an /\ e.output = "/dev/null")
           /\ e.pass = 2 =>
                /\ i = 2
                /\ wk.execs[1].pass = 1
                /\ wk.execs[1].ss = e.ss
                /\ wk.execs[1].t = e.t
           /\ (e.pass = 0 /\ i = 2) => FALSE

RunsPasses == \E i \in DOMAIN wk.execs : wk.execs[i].pass # 0

\* C27, as the code has it: the worker runs the first pass and the '-pass 2'
\* encode only when the two-pass setting is on or a target size is set, and
\* the output format is not WebM; the first pass then comes first, with the
\* trim options of the encode, the audio disabled and the null output.
TwoPassWhenAskedOrTargetSize ==
    /\ RunsPasses => ((settings.twoPass \/ settings.targetSizeMB # 0)
                        /\ sel.item.outputFormat # "webm")
    /\ PassesWellFormed

TwoPassWhenAskedOrTargetSizeWitness ==
    /\ Len(wk.execs) = 2
    /\ wk.execs[2].pass = 2
    /\ wk.execs[2].ss # NoTime
    /\ wk.execs[2].t # NoTime
    /\ ~settings.twoPass

\* C27, as stated: the worker runs the passes only when the user's two-pass
\* setting is on and the output format is not WebM.
TwoPassOnlyWhenSettingOn ==
    /\ RunsPasses => (settings.twoPass /\ sel.item.outputFormat # "webm")
    /\ PassesWellFormed

(***************************************************************************)
(* SpecDrag: the queue drain with the drag-to-reorder list                 *)
(* (DraggableVideoList).                                                   *)
(***************************************************************************)
\* videos.reorderItems with the array's indices counted from 1.
reorderItems(its, fromIndex, toIndex) ==
    LET removed == its[fromIndex]
        newItems == SubSeq(its, 1, fromIndex - 1) \o SubSeq(its, fromIndex + 1, Len(its))
    IN SubSeq(newItems, 1, toIndex - 1) \o <<removed>>
       \o SubSeq(newItems, toIndex, Len(newItems))

\* items.findIndex((i) => i.id === id), counted from 1
findIndex(its, id) == CHOOSE i \in DOMAIN its : its[i].id = id

\* DraggableVideoList: the card of job id, draggable unless it is processing,
\* is dropped on the card at toIndex.
handleDrop(id, toIndex) ==
    /\ HasItem(items, id)
    /\ StatusOf(items, id) # "processing"
    /\ toIndex \in DOMAIN items
    /\ findIndex(items, id) # toIndex
    /\ items' = reorderItems(items, findIndex(items, id), toIndex)
    /\ UNCHANGED <<sel, wk, settings, runtime, queue, isProcessing, webCodecsCapabilities,
                   procs, worker, workerReady, workerLoading, pendingCallbacks, wreqs,
                   urls, hist>>

NextDrag ==
    \/ NextDrain
    \/ \E id \in JobIds, toIndex \in JobIds : handleDrop(id, toIndex)

SpecDrag == Init /\ [][NextDrag]_vars

\* The drain starts a job in this step.
DrainPicks(d, id) == procs'[d].job = id /\ procs[d].job # id

\* C19: the job the drain starts is the pending job that is earliest in the
\* list when it is picked, so a pending job dragged ahead of another is
\* processed first; and a drop changes no job, only the order.
DrainFollowsListOrder ==
    [][/\ \A d \in Drains, id \in JobIds :
             DrainPicks(d, id) => id = Head(IdsWithStatus(items, "pending"))
       /\ \A id \in JobIds, toIndex \in JobIds :
             handleDrop(id, toIndex) =>
                 \A k \in JobIds : HasItem(items, k) =>
                     HasItem(items', k) /\ getItemById(items', k) = getItemById(items, k)]_vars

(***************************************************************************)
(* SpecTrim: the trim fields of a card (VideoCard).  A time string is the  *)
(* sequence of its characters.                                             *)
(***************************************************************************)
DigitChars == <<"0", "1", "2", "3", "4", "5", "6", "7", "8", "9">>

IsDigit(c) == \E i \in DOMAIN DigitChars : DigitChars[i] = c

DigitVal(c) == (CHOOSE i \in DOMAIN DigitChars : DigitChars[i] = c) - 1

\* The digits a string starts with.
RECURSIVE LeadingDigits(_)
LeadingDigits(str) ==
    IF str = <<>> \/ ~IsDigit(Head(str)) THEN <<>>
    ELSE <<Head(str)>> \o LeadingDigits(Tail(str))

RECURSIVE DecimalValue(_)
DecimalValue(digits) ==
    IF digits = <<>> THEN 0
    ELSE 10 * DecimalValue(SubSeq(digits, 1, Len(digits) - 1))
         + DigitVal(digits[Len(digits)])

\* parseInt(str, 10): an optional sign and the leading digits; <<>> is NaN.
parseInt(str) ==
    LET signed == str # <<>> /\ Head(str) \in {"-", "+"}
        digits == LeadingDigits(IF signed THEN Tail(str) ELSE str)
    IN IF digits = <<>> THEN <<>>
       ELSE <<IF signed /\ Head(str) = "-" THEN 0 - DecimalValue(digits)
              ELSE DecimalValue(digits)>>

\* parseFloat(str) of a string without fraction or exponent: the same prefix.
parseFloat(str) == parseInt(str)

\* str.split(sep)
RECURSIVE split(_, _)
split(str, sep) ==
    IF \A i \in DOMAIN str : str[i] # sep THEN <<str>>
    ELSE LET i == CHOOSE k \in DOMAIN str :
                      str[k] = sep /\ \A j \in 1..(k - 1) : str[j] # sep
         IN <<SubSeq(str, 1, i - 1)>> \o split(SubSeq(str, i + 1, Len(str)), sep)

\* <<>> is null, <<n>> is n seconds.
parseTimeInput(timeStr) ==
    LET parts == split(timeStr, ":")
    IN IF /\ Len(parts) = 2
          /\ parseInt(parts[1]) # <<>>
          /\ parseInt(parts[2]) # <<>>
       THEN <<parseInt(parts[1])[1] * 60 + parseInt(parts[2])[1]>>
       ELSE parseFloat(timeStr)

\* What the user types into a trim field: "", "1", "2", "9", "0:01", "0:03",
\* "1:x", "x", "-1".
TimeInputs ==
    {<<>>, <<"1">>, <<"2">>, <<"9">>, <<"0", ":", "0", "1">>, <<"0", ":", "0", "3">>,
     <<"1", ":", "x">>, <<"x">>, <<"-", "1">>}

\* newStart / newEnd of handleTrimUpdate: clamped to the duration, NoTime for
\* undefined.
ClampTime(parsed, maxDuration) ==
    IF parsed # <<>> THEN Max(0, Min(parsed[1], maxDuration)) ELSE NoTime

\* handleTrimUpdate that stores whatever was typed.
handleTrimUpdateUnchecked(its, id, trimStartInput, trimEndInput) ==
    LET maxDuration == VideoOf(id).duration
    IN updateItem(its, id,
                  [trimStart |-> ClampTime(parseTimeInput(trimStartInput), maxDuration),
                   trimEnd |-> ClampTime(parseTimeInput(trimEndInput), maxDuration)])

handleTrimUpdate(its, id, trimStartInput, trimEndInput) ==
    LET maxDuration == VideoOf(id).duration
        newStart == ClampTime(parseTimeInput(trimStartInput), maxDuration)
        newEnd == ClampTime(parseTimeInput(trimEndInput), maxDuration)
    IN IF newStart # NoTime /\ newEnd # NoTime /\ newStart >= newEnd THEN its
       ELSE updateItem(its, id, [trimStart |-> newStart, trimEnd |-> newEnd])

\* What the user typed is a range whose start is not before its end.
InvalidRange(trimStartInput, trimEndInput) ==
    /\ parseTimeInput(trimStartInput) # <<>>
    /\ parseTimeInput(trimEndInput) # <<>>
    /\ parseTimeInput(trimStartInput)[1] >= parseTimeInput(trimEndInput)[1]

TrimFrame ==
    UNCHANGED <<sel, wk, settings, runtime, queue, isProcessing, webCodecsCapabilities,
                procs, worker, workerReady, workerLoading, pendingCallbacks, wreqs,
                urls>>

\* The trim fields are rendered on a pending card whose duration is known.
ShowsTrim(id) == StatusOf(items, id) = "pending" /\ VideoOf(id).duration > 0

\* VideoCard: blur or Enter in one of the two trim fields.
HandleTrimUpdate(id, trimStartInput, trimEndInput) ==
    /\ ShowsTrim(id)
    /\ items' = handleTrimUpdate(items, id, trimStartInput, trimEndInput)
    /\ hist' = [hist EXCEPT !.trim = IF InvalidRange(trimStartInput, trimEndInput)
                                      THEN "invalid" ELSE "valid"]
    /\ TrimFrame

\* VideoCard: Clear, shown when the job has a trim.
clearTrim(id) ==
    /\ ShowsTrim(id)
    /\ getItemById(items, id).trimStart # NoTime \/ getItemById(items, id).trimEnd # NoTime
    /\ items' = updateItem(items, id, [trimStart |-> NoTime, trimEnd |-> NoTime])
    /\ hist' = [hist EXCEPT !.trim = "none"]
    /\ TrimFrame

NextTrim ==
    \/ preloadFFmpeg
    \/ AddFiles
    \/ \E id \in JobIds : HandleRemove(id)
    \/ \E id \in JobIds, a \in TimeInputs, b \in TimeInputs : HandleTrimUpdate(id, a, b)
    \/ \E id \in JobIds : clearTrim(id)

SpecTrim == Init /\ [][NextTrim]_vars

\* C17: a trim update whose start is not before its end (the only step that
\* sets hist.trim to "invalid") leaves the job's trimStart and trimEnd, and the
\* rest of the list, unchanged, and in every state a job with both bounds set
\* has trimStart < trimEnd.
InvalidTrimRejected ==
    /\ [](\A i \in DOMAIN items :
            (items[i].trimStart # NoTime /\ items[i].trimEnd # NoTime) =>
                items[i].trimStart < items[i].trimEnd)
    /\ [][(hist.trim # "invalid" /\ hist'.trim = "invalid") => items' = items]_vars

\* The last trim update was an invalid range, and the job it was typed for
\* still has the valid range it had.
InvalidTrimRejectedWitness ==
    /\ hist.trim = "invalid"
    /\ \E i \in DOMAIN items :
          /\ items[i].trimStart # NoTime
          /\ items[i].trimEnd # NoTime
          /\ items[i].trimStart < items[i].trimEnd

====
